---- MODULE Spec2Model ----
(***************************************************************************)
(* OptiCV front end: the React pages' state machines (OptimizePage in      *)
(* app/optimize/page.tsx, the older OptimizePage kept in app/layout.tsx,   *)
(* CreatePage, ScorePage, ResumeForm) and the scoring pipeline of the back *)
(* end.                                                                    *)
(*                                                                         *)
(* A nullable React state (useState<T | null>) is a sequence: <<>> is      *)
(* null, <<v>> is the value v.  A string that the code splits or joins on  *)
(* "\n" is the sequence of its lines (a string always has at least one     *)
(* line: "" is <<"">>).  An in-flight request keeps the values its handler *)
(* closed over when it was called.                                         *)
(***************************************************************************)
EXTENDS Integers, Sequences, FiniteSets, TLC

VARIABLES
    page,              \* which component runs: a page, or the back end's scorer
    file,              \* OptimizePage: useState<File | null>
    loading,           \* OptimizePage / CreatePage: useState(false)
    optimizing,        \* OptimizePage: useState(false)
    enhancingSection,  \* OptimizePage / CreatePage: useState<string | null>
    original,          \* OptimizePage: useState<ResumeData | null>
    originalScore,     \* OptimizePage: useState<ATSScore | null>
    optimized,         \* OptimizePage: useState<ResumeData | null>
    optimizedScore,    \* OptimizePage: useState<ATSScore | null>
    parseReq,          \* in-flight parseResume call of handleParse
    optReq,            \* in-flight generateResume call of handleOptimize
    enhReqs,           \* in-flight enhanceSection calls of handleEnhance
    step,              \* CreatePage: useState<Step>(1)
    fullName,          \* CreatePage: useState("")
    phone,             \* CreatePage: useState("")
    email,             \* CreatePage: useState("")
    targetRole,        \* CreatePage: useState("")
    resumeData,        \* CreatePage: useState<ResumeData | null>
    atsScore,          \* CreatePage: useState<ATSScore | null>
    summary,           \* CreatePage: useState("")
    skills,            \* CreatePage: useState("")
    genReq,            \* in-flight generateResume call of handleGenerate
    roundingRule,      \* scorer: the rule for .5 cases, fixed at start-up
    svc,               \* scorer: where one score() invocation stands
    det,               \* scorer: the DeterministicScorer's sub-scores
    sem,               \* scorer: the SemanticEvaluator adapter
    score,             \* scorer: the ATSScore the aggregator produced;
                       \* ScorePage: useState<ATSScore | null>
    experience,        \* CreatePage: useState<ExpEntry[]>([emptyExp()])
    showExperience,    \* CreatePage: useState(false)
    sampleReq,         \* whether fetches of loadSample are in flight
    data,              \* ResumeForm: useState<ResumeData>(emptyResume)
    skillGap,          \* ScorePage: useState<SkillGapAnalysis | null>;
                       \* scorer: the SkillGapAnalysis produced
    scoreReq,          \* in-flight scoreResume call of handleScore
    job,               \* scorer: the resume and keyword set of the request
    projects,          \* CreatePage: useState<ProjEntry[]>([emptyProj()])
    showProjects,      \* CreatePage: useState(false)
    previewData,       \* ResumePreview: the experience list of its data prop
    rendered,          \* ResumePreview: the date spans it rendered
    downloading,       \* CreatePage: useState(false)
    dlReq,             \* in-flight downloadResume call of handleDownload
    messages,          \* ChatPage: useState<ChatMessage[]>([])
    input,             \* ChatPage: useState("")
    streaming,         \* ChatPage: useState(false)
    streams,           \* in-flight chatStream calls of sendMessage
    api,               \* lib/api.ts: the wrapper called and where it stands
    response,          \* lib/api.ts: the Response fetch resolved with
    outcome,           \* lib/api.ts: how the wrapper's promise settled
    ev                 \* the handler step taken last (history)

optVars == <<file, loading, optimizing, enhancingSection, original,
             originalScore, optimized, optimizedScore, parseReq, optReq,
             enhReqs>>

createVars == <<step, fullName, phone, email, targetRole, resumeData, atsScore,
                summary, skills, genReq>>

scoreVars == <<roundingRule, svc, det, sem, score>>

formVars == <<experience, showExperience, sampleReq, data>>

projVars == <<projects, showProjects>>

previewVars == <<previewData, rendered>>

dlVars == <<downloading, dlReq>>

chatVars == <<messages, input, streaming, streams>>

apiVars == <<api, response, outcome>>

extVars == <<projVars, previewVars, dlVars, chatVars, apiVars>>

auxVars == <<formVars, skillGap, scoreReq, job, extVars>>

vars == <<page, optVars, createVars, scoreVars, auxVars, ev>>

----------------------------------------------------------------------------
(* Bounds *)

MaxOrigProjects == 2     \* projects of a parsed resume
MaxNewProjects == 2      \* projects of a rewritten resume
MaxEnhance == 2          \* enhance calls in flight at once
MaxExperience == 2       \* experience entries of the Create form
MaxProjects == 2         \* project entries of the Create form
MaxSends == 2            \* messages the user sends in the chat
MaxChunks == 2           \* chunks of one streamed reply

----------------------------------------------------------------------------
(* Values *)

None == <<>>
Some(v) == <<v>>

Undef == "<undefined>"

\* JavaScript truthiness of an optional string
Falsy(v) == v \in {Undef, ""}

\* a || b || ""
OrElse(a, b) == IF ~Falsy(a) THEN a ELSE IF ~Falsy(b) THEN b ELSE ""

\* String.prototype.toLowerCase on the titles used here
ToLower(t) ==
    CASE t = "A" -> "a" [] t = "B" -> "b"
      [] t = "Present" -> "present" [] t = "PRESENT" -> "present"
      [] t = "Python" -> "python" [] t = "Docker" -> "docker"
      [] OTHER -> t

SeqUpTo(S, n) == UNION {[1..k -> S] : k \in 0..n}

\* content.split("\n"): the lines of the text
Split(text) == text

\* list.filter(Boolean): drop the empty strings
RECURSIVE FilterBoolean(_)
FilterBoolean(list) ==
    IF list = <<>> THEN <<>>
    ELSE IF Head(list) = "" THEN FilterBoolean(Tail(list))
         ELSE <<Head(list)>> \o FilterBoolean(Tail(list))

\* list.join("\n"): the text whose lines are the elements
Join(list) == IF list = <<>> THEN <<"">> ELSE list

----------------------------------------------------------------------------
(* ResumeData values.  linkedin, location: optional strings (Undef when the *)
(* key is missing); a project is [title, link] (link "" when missing or     *)
(* empty: the code only tests !p.link); summary is a text; skills a list;   *)
(* experience and education stand for the whole lists, which no handler     *)
(* looks into.                                                              *)

Resume(li, lo, su, sk, ex, ed, ps) ==
    [linkedin |-> li, location |-> lo, summary |-> su, skills |-> sk,
     experience |-> ex, education |-> ed, projects |-> ps]

Project(t, l) == [title |-> t, link |-> l]

OrigProjectSet == {Project(t, l) : t \in {"", "a", "A"}, l \in {"", "u1", "u2"}}
NewProjectSet == {Project(t, l) : t \in {"", "a", "A", "b"}, l \in {"", "u2"}}

\* what parseResume may answer: the small set drives the page machines, the
\* rich one the reconciliation
SmallOriginals ==
    { Resume("c1", "", <<"s0">>, <<"k0">>, "x0", "d0", ps) :
        ps \in {<<Project("a", "u1")>>} }

RichOriginals ==
    { Resume(li, lo, <<"s0">>, <<"k0">>, "x0", "d0", <<Project("a", "u1")>>) :
        li \in {Undef, "c1"}, lo \in {"", "c1"} }
    \cup
    { Resume("c1", "c1", <<"s0">>, <<"k0">>, "x0", "d0", ps) :
        ps \in SeqUpTo(OrigProjectSet, MaxOrigProjects) }

\* what generateResume may answer as the rewrite
SmallRewrites ==
    { Resume(Undef, "c2", <<"r0">>, <<"k0", "k1">>, "x1", "d0", ps) :
        ps \in {<<Project("A", "")>>} }

RichRewrites ==
    { Resume(li, lo, <<"r0">>, <<"k0", "k1">>, "x1", "d0", <<Project("A", "")>>) :
        li \in {Undef, "c1", "c2"}, lo \in {"", "c1", "c2"} }
    \cup
    { Resume(Undef, "", <<"r0">>, <<"k0", "k1">>, "x1", "d0", ps) :
        ps \in SeqUpTo(NewProjectSet, MaxNewProjects) }

ParseScores == {"p1"}
GenerateScores == {"g1"}
Files == {"cv.pdf"}

----------------------------------------------------------------------------
(* handleOptimize's reconciliation, optimize/page.tsx 62-79 *)

\* byTitle.get(key) after the forEach of line 71: Map.set overwrites, so the
\* entry of a key is the last original project with that lower-cased title
ByTitleGet(origProjects, key) ==
    LET hits == {i \in 1..Len(origProjects) :
                    origProjects[i].title # "" /\ ToLower(origProjects[i].title) = key}
    IN IF hits = {} THEN None
       ELSE Some(origProjects[CHOOSE i \in hits : \A j \in hits : j <= i])

\* MergeProject with the rewritten title looked up as it is, not lower-cased
MergeProjectNoLower(p, origProjects) ==
    LET orig == ByTitleGet(origProjects, p.title)
    IN IF orig # None /\ Falsy(p.link) /\ ~Falsy(orig[1].link)
       THEN [p EXCEPT !.link = orig[1].link]
       ELSE p

\* the callback of merged.projects.map, lines 72-78
MergeProject(p, origProjects) ==
    LET key == ToLower(p.title)
        orig == ByTitleGet(origProjects, key)
    IN IF orig # None /\ Falsy(p.link) /\ ~Falsy(orig[1].link)
       THEN [p EXCEPT !.link = orig[1].link]
       ELSE p

\* Reconcile with merged starting as a copy of the original, not the rewrite
ReconcileOntoOriginal(res, orig) ==
    [orig EXCEPT
        !.linkedin = OrElse(res.linkedin, orig.linkedin),
        !.location = OrElse(res.location, orig.location),
        !.projects = [i \in 1..Len(res.projects) |->
                         MergeProject(res.projects[i], orig.projects)]]

\* Reconcile with the original's projects carried over behind the rewrite's
ReconcileAppending(res, orig) ==
    [res EXCEPT
        !.linkedin = OrElse(res.linkedin, orig.linkedin),
        !.location = OrElse(res.location, orig.location),
        !.projects = [i \in 1..Len(res.projects) |->
                         MergeProject(res.projects[i], orig.projects)]
                     \o orig.projects]

\* lines 63-79: merged = {...res.resume_data} with the contact fields and the
\* project links merged back from the original
Reconcile(res, orig) ==
    [res EXCEPT
        !.linkedin = OrElse(res.linkedin, orig.linkedin),
        !.location = OrElse(res.location, orig.location),
        !.projects = [i \in 1..Len(res.projects) |->
                         MergeProject(res.projects[i], orig.projects)]]

----------------------------------------------------------------------------
(* OptimizePage, app/optimize/page.tsx *)

Sections == {"summary", "skills"}

\* what the user may type into a textarea, and what enhanceSection may answer
EditTexts == {<<"t1", "">>}
EnhancedContents == {<<"e1", "", "e2">>}

\* <input type="file"> onChange, line 157 (the upload card shows while !original)
SetFile ==
    /\ page = "optimize"
    /\ original = None
    /\ \E f \in {None} \cup {Some(x) : x \in Files} :
          /\ f # file
          /\ file' = f
    /\ ev' = [op |-> "setFile"]
    /\ UNCHANGED <<page, loading, optimizing, enhancingSection, original,
                   originalScore, optimized, optimizedScore, parseReq, optReq,
                   enhReqs, createVars, scoreVars, auxVars>>

\* handleParse up to its await, lines 36-40; the button of line 166 is
\* disabled while loading || !file
HandleParse ==
    /\ page = "optimize"
    /\ original = None
    /\ ~loading
    /\ file # None
    /\ loading' = TRUE
    /\ parseReq' = Some(file[1])
    /\ ev' = [op |-> "parse"]
    /\ UNCHANGED <<page, file, optimizing, enhancingSection, original,
                   originalScore, optimized, optimizedScore, optReq, enhReqs,
                   createVars, scoreVars, auxVars>>

\* handleParse after parseResume resolves, lines 41-42 and 46
HandleParseOk(results) ==
    /\ page = "optimize"
    /\ parseReq # None
    /\ \E rd \in results, sc \in ParseScores :
          /\ original' = Some(rd)
          /\ originalScore' = Some(sc)
    /\ loading' = FALSE
    /\ parseReq' = None
    /\ ev' = [op |-> "parseOk"]
    /\ UNCHANGED <<page, file, optimizing, enhancingSection, optimized,
                   optimizedScore, optReq, enhReqs, createVars, scoreVars, auxVars>>

\* HandleParseFail without the finally of line 45: loading stays true
HandleParseFailStuck ==
    /\ page = "optimize"
    /\ parseReq # None
    /\ parseReq' = None
    /\ ev' = [op |-> "parseFail", alert |-> "Parse failed"]
    /\ UNCHANGED <<page, file, loading, optimizing, enhancingSection, original,
                   originalScore, optimized, optimizedScore, optReq, enhReqs,
                   createVars, scoreVars, auxVars>>

\* handleParse after parseResume rejects, lines 43-46
HandleParseFail ==
    /\ page = "optimize"
    /\ parseReq # None
    /\ loading' = FALSE
    /\ parseReq' = None
    /\ ev' = [op |-> "parseFail", alert |-> "Parse failed"]
    /\ UNCHANGED <<page, file, optimizing, enhancingSection, original,
                   originalScore, optimized, optimizedScore, optReq, enhReqs,
                   createVars, scoreVars, auxVars>>

\* handleOptimize up to its await, lines 50-61; the button of line 180 shows
\* while original && !optimized and is disabled while optimizing
HandleOptimize ==
    /\ page = "optimize"
    /\ original # None
    /\ optimized = None
    /\ ~optimizing
    /\ optimizing' = TRUE
    /\ optReq' = Some([original |-> original[1]])
    /\ ev' = [op |-> "optimize"]
    /\ UNCHANGED <<page, file, loading, enhancingSection, original,
                   originalScore, optimized, optimizedScore, parseReq, enhReqs,
                   createVars, scoreVars, auxVars>>

\* handleOptimize after generateResume resolves, lines 62-82 and 86; original
\* is the value the handler closed over
HandleOptimizeOk(rewrites) ==
    /\ page = "optimize"
    /\ optReq # None
    /\ \E res \in rewrites, sc \in GenerateScores :
          /\ optimized' = Some(Reconcile(res, optReq[1].original))
          /\ optimizedScore' = Some(sc)
          /\ ev' = [op |-> "optimizeOk", orig |-> optReq[1].original, res |-> res]
    /\ optimizing' = FALSE
    /\ optReq' = None
    /\ UNCHANGED <<page, file, loading, enhancingSection, original,
                   originalScore, parseReq, enhReqs, createVars, scoreVars, auxVars>>

\* handleOptimize after generateResume rejects, lines 83-86
HandleOptimizeFail ==
    /\ page = "optimize"
    /\ optReq # None
    /\ optimizing' = FALSE
    /\ optReq' = None
    /\ ev' = [op |-> "optimizeFail", alert |-> "Optimization failed"]
    /\ UNCHANGED <<page, file, loading, enhancingSection, original,
                   originalScore, optimized, optimizedScore, parseReq, enhReqs,
                   createVars, scoreVars, auxVars>>

\* the Upload New button, line 175
UploadNew ==
    /\ page = "optimize"
    /\ original # None
    /\ original' = None
    /\ optimized' = None
    /\ ev' = [op |-> "uploadNew"]
    /\ UNCHANGED <<page, file, loading, optimizing, enhancingSection,
                   originalScore, optimizedScore, parseReq, optReq, enhReqs,
                   createVars, scoreVars, auxVars>>

\* the Summary textarea, line 259 (the editor shows while original && optimized)
EditSummary ==
    /\ page = "optimize"
    /\ original # None
    /\ optimized # None
    /\ \E v \in EditTexts :
          /\ v # optimized[1].summary
          /\ optimized' = Some([optimized[1] EXCEPT !.summary = v])
    /\ ev' = [op |-> "editSummary"]
    /\ UNCHANGED <<page, file, loading, optimizing, enhancingSection, original,
                   originalScore, optimizedScore, parseReq, optReq, enhReqs,
                   createVars, scoreVars, auxVars>>

\* the Skills textarea, line 278
EditSkills ==
    /\ page = "optimize"
    /\ original # None
    /\ optimized # None
    /\ \E v \in EditTexts :
          /\ Split(v) # optimized[1].skills
          /\ optimized' = Some([optimized[1] EXCEPT !.skills = Split(v)])
    /\ ev' = [op |-> "editSkills"]
    /\ UNCHANGED <<page, file, loading, optimizing, enhancingSection, original,
                   originalScore, optimizedScore, parseReq, optReq, enhReqs,
                   createVars, scoreVars, auxVars>>

\* handleEnhance up to its await, lines 90-94; the button of a section (lines
\* 247-251, 266-270) is disabled while enhancingSection is that section.  The
\* call keeps the optimized the handler closed over.
HandleEnhance(section) ==
    /\ page = "optimize"
    /\ original # None
    /\ optimized # None
    /\ enhancingSection # Some(section)
    /\ Len(enhReqs) < MaxEnhance
    /\ enhancingSection' = Some(section)
    /\ enhReqs' = Append(enhReqs, [section |-> section, optimized |-> optimized])
    /\ ev' = [op |-> "enhance", section |-> section]
    /\ UNCHANGED <<page, file, loading, optimizing, original, originalScore,
                   optimized, optimizedScore, parseReq, optReq, createVars, scoreVars, auxVars>>

RemoveAt(s, i) == SubSeq(s, 1, i - 1) \o SubSeq(s, i + 1, Len(s))

\* lines 96-98: updated = {...optimized} with the section's field replaced
EnhancedResume(snapshot, section, content) ==
    IF section = "summary" THEN [snapshot EXCEPT !.summary = content]
    ELSE IF section = "skills"
         THEN [snapshot EXCEPT !.skills = FilterBoolean(Split(content))]
         ELSE snapshot

\* handleEnhance after enhanceSection resolves, lines 95-99 and 104
HandleEnhanceOk(i) ==
    /\ page = "optimize"
    /\ i \in 1..Len(enhReqs)
    /\ LET req == enhReqs[i] IN
          /\ \E content \in EnhancedContents :
                optimized' =
                    IF req.optimized = None THEN optimized
                    ELSE Some(EnhancedResume(req.optimized[1], req.section, content))
          /\ ev' = [op |-> "enhanceOk", section |-> req.section]
    /\ enhancingSection' = None
    /\ enhReqs' = RemoveAt(enhReqs, i)
    /\ UNCHANGED <<page, file, loading, optimizing, original, originalScore,
                   optimizedScore, parseReq, optReq, createVars, scoreVars, auxVars>>

\* HandleEnhanceFail with the section's field written although the call failed
HandleEnhanceFailPartial(i) ==
    /\ page = "optimize"
    /\ i \in 1..Len(enhReqs)
    /\ optimized' =
          IF enhReqs[i].optimized = None THEN optimized
          ELSE Some(EnhancedResume(enhReqs[i].optimized[1], enhReqs[i].section, <<"">>))
    /\ enhancingSection' = None
    /\ enhReqs' = RemoveAt(enhReqs, i)
    /\ ev' = [op |-> "enhanceFail", section |-> enhReqs[i].section,
              alert |-> "Enhancement failed"]
    /\ UNCHANGED <<page, file, loading, optimizing, original, originalScore,
                   optimizedScore, parseReq, optReq, createVars, scoreVars, auxVars>>

\* handleEnhance after enhanceSection rejects, lines 100-104
HandleEnhanceFail(i) ==
    /\ page = "optimize"
    /\ i \in 1..Len(enhReqs)
    /\ enhancingSection' = None
    /\ enhReqs' = RemoveAt(enhReqs, i)
    /\ ev' = [op |-> "enhanceFail", section |-> enhReqs[i].section,
              alert |-> "Enhancement failed"]
    /\ UNCHANGED <<page, file, loading, optimizing, original, originalScore,
                   optimized, optimizedScore, parseReq, optReq, createVars, scoreVars, auxVars>>

----------------------------------------------------------------------------
(* The OptimizePage kept in app/layout.tsx (lines 52-277): no Upload New, no *)
(* editor; the upload card and the Optimize button stay on screen.          *)

\* <input type="file"> onChange, layout.tsx line 148
LayoutSetFile ==
    /\ page = "layout"
    /\ \E f \in {None} \cup {Some(x) : x \in Files} :
          /\ f # file
          /\ file' = f
    /\ ev' = [op |-> "setFile"]
    /\ UNCHANGED <<page, loading, optimizing, enhancingSection, original,
                   originalScore, optimized, optimizedScore, parseReq, optReq,
                   enhReqs, createVars, scoreVars, auxVars>>

\* handleParse up to its await, layout.tsx lines 65-69; button of line 157
LayoutHandleParse ==
    /\ page = "layout"
    /\ ~loading
    /\ file # None
    /\ loading' = TRUE
    /\ parseReq' = Some(file[1])
    /\ ev' = [op |-> "parse"]
    /\ UNCHANGED <<page, file, optimizing, enhancingSection, original,
                   originalScore, optimized, optimizedScore, optReq, enhReqs,
                   createVars, scoreVars, auxVars>>

\* layout.tsx lines 70-71 and 75
LayoutHandleParseOk(results) ==
    /\ page = "layout"
    /\ parseReq # None
    /\ \E rd \in results, sc \in ParseScores :
          /\ original' = Some(rd)
          /\ originalScore' = Some(sc)
    /\ loading' = FALSE
    /\ parseReq' = None
    /\ ev' = [op |-> "parseOk"]
    /\ UNCHANGED <<page, file, optimizing, enhancingSection, optimized,
                   optimizedScore, optReq, enhReqs, createVars, scoreVars, auxVars>>

\* layout.tsx lines 72-75
LayoutHandleParseFail ==
    /\ page = "layout"
    /\ parseReq # None
    /\ loading' = FALSE
    /\ parseReq' = None
    /\ ev' = [op |-> "parseFail", alert |-> "Parse failed"]
    /\ UNCHANGED <<page, file, optimizing, enhancingSection, original,
                   originalScore, optimized, optimizedScore, optReq, enhReqs,
                   createVars, scoreVars, auxVars>>

\* handleOptimize up to its await, layout.tsx lines 79-90; button of line 245
LayoutHandleOptimize ==
    /\ page = "layout"
    /\ original # None
    /\ ~optimizing
    /\ optimizing' = TRUE
    /\ optReq' = Some([original |-> original[1]])
    /\ ev' = [op |-> "optimize"]
    /\ UNCHANGED <<page, file, loading, enhancingSection, original,
                   originalScore, optimized, optimizedScore, parseReq, enhReqs,
                   createVars, scoreVars, auxVars>>

\* layout.tsx lines 91-92 and 96: the rewrite is stored as it came
LayoutHandleOptimizeOk(rewrites) ==
    /\ page = "layout"
    /\ optReq # None
    /\ \E res \in rewrites, sc \in GenerateScores :
          /\ optimized' = Some(res)
          /\ optimizedScore' = Some(sc)
          /\ ev' = [op |-> "optimizeOk", orig |-> optReq[1].original, res |-> res]
    /\ optimizing' = FALSE
    /\ optReq' = None
    /\ UNCHANGED <<page, file, loading, enhancingSection, original,
                   originalScore, parseReq, enhReqs, createVars, scoreVars, auxVars>>

\* layout.tsx lines 93-96
LayoutHandleOptimizeFail ==
    /\ page = "layout"
    /\ optReq # None
    /\ optimizing' = FALSE
    /\ optReq' = None
    /\ ev' = [op |-> "optimizeFail", alert |-> "Optimization failed"]
    /\ UNCHANGED <<page, file, loading, enhancingSection, original,
                   originalScore, optimized, optimizedScore, parseReq, enhReqs,
                   createVars, scoreVars, auxVars>>

----------------------------------------------------------------------------
(* CreatePage, part_003 lines 311-1024 *)

FieldTexts == {"", "x"}

\* what generateResume may answer to handleGenerate
Generated ==
    { Resume(Undef, Undef, <<"r0">>, sk, "x1", "d0", <<>>) :
        sk \in {<<>>, <<"k0", "k1">>} }

\* emptyProj(), line 267: a form project is [title, link]; description and
\* technologies, which add lines of their own to the text, are left out
emptyProj == Project("", "")

\* the part of an experience entry, line 289: the template's pieces in order
\* (company and location left out), ending in e.end_date || "Present"
ExperiencePart(e) ==
    <<"- ", e.job_title, " | ",
      IF Falsy(e.start_date) THEN "N/A" ELSE e.start_date, " - ",
      IF Falsy(e.end_date) THEN "Present" ELSE e.end_date>>

\* the part of a project, line 300: the link in parentheses when there is one
ProjectPart(p) ==
    IF Falsy(p.link) THEN <<"- ", p.title>>
    ELSE <<"- ", p.title, " (", p.link, ")">>

\* list.filter(keep), for keep a set of entries
RECURSIVE Filter(_, _)
Filter(list, keep) ==
    IF list = <<>> THEN <<>>
    ELSE IF Head(list) \in keep THEN <<Head(list)>> \o Filter(Tail(list), keep)
         ELSE Filter(Tail(list), keep)

\* buildExistingResumeText, lines 270-307, without the education block: the
\* parts pushed, each the sequence of its template's pieces, or None
\* (undefined) when nothing was pushed.  An experience entry is kept when it
\* has a job title (line 285), a project when it has a title (line 296).
buildExistingResumeText(exps, projs) ==
    LET filledExp == Filter(exps, {e \in {exps[k] : k \in 1..Len(exps)} :
                                      ~Falsy(e.job_title)})
        filledProj == Filter(projs, {q \in {projs[k] : k \in 1..Len(projs)} :
                                        ~Falsy(q.title)})
        expParts == IF filledExp = <<>> THEN <<>>
                    ELSE << <<"\nEXPERIENCE:">> >>
                         \o [k \in 1..Len(filledExp) |-> ExperiencePart(filledExp[k])]
        projParts == IF filledProj = <<>> THEN <<>>
                     ELSE << <<"\nPROJECTS:">> >>
                          \o [k \in 1..Len(filledProj) |-> ProjectPart(filledProj[k])]
        parts == expParts \o projParts
    IN IF parts = <<>> THEN None ELSE Some(parts)

\* the four required inputs of step 1, lines 558-587
SetFullName ==
    /\ page = "create" /\ step = 1
    /\ \E v \in FieldTexts : v # fullName /\ fullName' = v
    /\ ev' = [op |-> "setField"]
    /\ UNCHANGED <<page, optVars, scoreVars, auxVars, step, phone, email, targetRole, resumeData,
                   atsScore, summary, skills, genReq>>

SetTargetRole ==
    /\ page = "create" /\ step = 1
    /\ \E v \in FieldTexts : v # targetRole /\ targetRole' = v
    /\ ev' = [op |-> "setField"]
    /\ UNCHANGED <<page, optVars, scoreVars, auxVars, step, fullName, phone, email, resumeData,
                   atsScore, summary, skills, genReq>>

SetEmail ==
    /\ page = "create" /\ step = 1
    /\ \E v \in FieldTexts : v # email /\ email' = v
    /\ ev' = [op |-> "setField"]
    /\ UNCHANGED <<page, optVars, scoreVars, auxVars, step, fullName, phone, targetRole, resumeData,
                   atsScore, summary, skills, genReq>>

SetPhone ==
    /\ page = "create" /\ step = 1
    /\ \E v \in FieldTexts : v # phone /\ phone' = v
    /\ ev' = [op |-> "setField"]
    /\ UNCHANGED <<page, optVars, scoreVars, auxVars, step, fullName, email, targetRole, resumeData,
                   atsScore, summary, skills, genReq>>

\* HandleGenerate with a button that is not disabled while loading
HandleGenerateWhileLoading ==
    /\ page = "create" /\ step = 1
    /\ fullName # "" /\ email # "" /\ phone # "" /\ targetRole # ""
    /\ loading' = TRUE
    /\ genReq' = Some([full_name |-> fullName, target_role |-> targetRole])
    /\ ev' = [op |-> "generate",
              existing_resume_text |-> buildExistingResumeText(experience, projects)]
    /\ UNCHANGED <<page, file, optimizing, enhancingSection, original,
                   originalScore, optimized, optimizedScore, parseReq, optReq,
                   enhReqs, step, fullName, phone, email, targetRole,
                   resumeData, atsScore, summary, skills,
                   scoreVars, auxVars>>

\* handleGenerate up to its await, lines 433-444; the button of lines 805-809
\* is disabled while loading || !fullName || !email || !phone || !targetRole
HandleGenerate ==
    /\ page = "create" /\ step = 1
    /\ ~loading
    /\ fullName # "" /\ email # "" /\ phone # "" /\ targetRole # ""
    /\ loading' = TRUE
    /\ genReq' = Some([full_name |-> fullName, target_role |-> targetRole])
    /\ ev' = [op |-> "generate",
              existing_resume_text |-> buildExistingResumeText(experience, projects)]
    /\ UNCHANGED <<page, file, optimizing, enhancingSection, original,
                   originalScore, optimized, optimizedScore, parseReq, optReq,
                   enhReqs, step, fullName, phone, email, targetRole,
                   resumeData, atsScore, summary, skills,
                   scoreVars, auxVars>>

\* handleGenerate after generateResume resolves, lines 445-450 and 454
HandleGenerateOk ==
    /\ page = "create"
    /\ genReq # None
    /\ \E rd \in Generated, sc \in GenerateScores :
          /\ resumeData' = Some(rd)
          /\ atsScore' = Some(sc)
          /\ summary' = rd.summary
          /\ skills' = Join(rd.skills)
    /\ step' = 2
    /\ loading' = FALSE
    /\ genReq' = None
    /\ ev' = [op |-> "generateOk"]
    /\ UNCHANGED <<page, file, optimizing, enhancingSection, original,
                   originalScore, optimized, optimizedScore, parseReq, optReq,
                   enhReqs, fullName, phone, email, targetRole,
                   scoreVars, auxVars>>

\* handleGenerate after generateResume rejects, lines 451-454
HandleGenerateFail ==
    /\ page = "create"
    /\ genReq # None
    /\ loading' = FALSE
    /\ genReq' = None
    /\ ev' = [op |-> "generateFail", alert |-> "Generation failed"]
    /\ UNCHANGED <<page, file, optimizing, enhancingSection, original,
                   originalScore, optimized, optimizedScore, parseReq, optReq,
                   enhReqs, step, fullName, phone, email, targetRole,
                   resumeData, atsScore, summary, skills,
                   scoreVars, auxVars>>

\* the Back and Continue buttons of step 2 (lines 948-951) and Back to Edit of
\* step 3 (line 1016); steps 2 and 3 render only while resumeData is set
SetStep(to) ==
    /\ page = "create"
    /\ resumeData # None
    /\ \/ step = 2 /\ to \in {1, 3}
       \/ step = 3 /\ to = 2
    /\ step' = to
    /\ ev' = [op |-> "setStep"]
    /\ UNCHANGED <<page, optVars, scoreVars, auxVars, fullName, phone, email, targetRole,
                   resumeData, atsScore, summary, skills, genReq>>

\* the Summary and Skills textareas of step 2, lines 859 and 889
CreateEditSummary ==
    /\ page = "create" /\ step = 2 /\ resumeData # None
    /\ \E v \in EditTexts : v # summary /\ summary' = v
    /\ ev' = [op |-> "editSummary"]
    /\ UNCHANGED <<page, optVars, scoreVars, auxVars, step, fullName, phone, email, targetRole,
                   resumeData, atsScore, skills, genReq>>

CreateEditSkills ==
    /\ page = "create" /\ step = 2 /\ resumeData # None
    /\ \E v \in EditTexts : v # skills /\ skills' = v
    /\ ev' = [op |-> "editSkills"]
    /\ UNCHANGED <<page, optVars, scoreVars, auxVars, step, fullName, phone, email, targetRole,
                   resumeData, atsScore, summary, genReq>>

\* CreatePage.handleEnhance up to its await, lines 458-466; the buttons of
\* lines 842-846 and 872-876 show in step 2
CreateHandleEnhance(section) ==
    /\ page = "create" /\ step = 2 /\ resumeData # None
    /\ enhancingSection # Some(section)
    /\ Len(enhReqs) < MaxEnhance
    /\ enhancingSection' = Some(section)
    /\ enhReqs' = Append(enhReqs, [section |-> section, optimized |-> None])
    /\ ev' = [op |-> "enhance", section |-> section]
    /\ UNCHANGED <<page, file, loading, optimizing, original, originalScore,
                   optimized, optimizedScore, parseReq, optReq, createVars, scoreVars, auxVars>>

\* CreatePage.handleEnhance after enhanceSection resolves, lines 467-468, 472
CreateHandleEnhanceOk(i) ==
    /\ page = "create"
    /\ i \in 1..Len(enhReqs)
    /\ LET req == enhReqs[i] IN
          /\ \E content \in EnhancedContents :
                /\ summary' = IF req.section = "summary" THEN content ELSE summary
                /\ skills' = IF req.section = "skills" THEN content ELSE skills
          /\ ev' = [op |-> "enhanceOk", section |-> req.section]
    /\ enhancingSection' = None
    /\ enhReqs' = RemoveAt(enhReqs, i)
    /\ UNCHANGED <<page, file, loading, optimizing, original, originalScore,
                   optimized, optimizedScore, parseReq, optReq, step, fullName,
                   phone, email, targetRole, resumeData, atsScore, genReq,
                   scoreVars, auxVars>>

\* CreatePage.handleEnhance after enhanceSection rejects, lines 469-472: the
\* catch is empty
CreateHandleEnhanceFail(i) ==
    /\ page = "create"
    /\ i \in 1..Len(enhReqs)
    /\ enhancingSection' = None
    /\ enhReqs' = RemoveAt(enhReqs, i)
    /\ ev' = [op |-> "enhanceFail", section |-> enhReqs[i].section]
    /\ UNCHANGED <<page, file, loading, optimizing, original, originalScore,
                   optimized, optimizedScore, parseReq, optReq, createVars, scoreVars, auxVars>>

----------------------------------------------------------------------------
(* CreatePage.handleDownload, part_003 lines 476-497 *)

Formats == {"pdf", "docx"}

\* updated without the filter(Boolean): the empty lines stay in skills
updatedUnfiltered(rd, su, sk) ==
    [rd EXCEPT !.summary = su, !.skills = sk]

\* lines 480-484: updated = {...resumeData, summary, skills: skills
\* .split("\n").filter(Boolean)}
updated(rd, su, sk) ==
    [rd EXCEPT !.summary = su, !.skills = FilterBoolean(Split(sk))]

\* handleDownload(format) up to its await, lines 476-485; the buttons of
\* lines 999 and 1006 show in step 3 while resumeData is set and are disabled
\* while downloading.  The call keeps the fullName the handler closed over.
HandleDownload ==
    /\ page = "create" /\ step = 3
    /\ resumeData # None
    /\ ~downloading
    /\ \E format \in Formats :
          /\ dlReq' = Some([format |-> format, fullName |-> fullName])
          /\ ev' = [op |-> "download", format |-> format,
                    resumeData |-> updated(resumeData[1], summary, skills)]
    /\ downloading' = TRUE
    /\ UNCHANGED <<page, optVars, createVars, scoreVars, formVars, skillGap,
                   scoreReq, job, projVars, previewVars, chatVars, apiVars>>

\* handleDownload after downloadResume resolves, lines 486-491 and 495: the
\* blob is saved under the name <fullName>.<format>
HandleDownloadOk ==
    /\ page = "create"
    /\ dlReq # None
    /\ downloading' = FALSE
    /\ dlReq' = None
    /\ ev' = [op |-> "downloadOk", fullName |-> dlReq[1].fullName,
              format |-> dlReq[1].format]
    /\ UNCHANGED <<page, optVars, createVars, scoreVars, formVars, skillGap,
                   scoreReq, job, projVars, previewVars, chatVars, apiVars>>

\* handleDownload after downloadResume rejects, lines 492-495
HandleDownloadFail ==
    /\ page = "create"
    /\ dlReq # None
    /\ downloading' = FALSE
    /\ dlReq' = None
    /\ ev' = [op |-> "downloadFail", alert |-> "Download failed"]
    /\ UNCHANGED <<page, optVars, createVars, scoreVars, formVars, skillGap,
                   scoreReq, job, projVars, previewVars, chatVars, apiVars>>

----------------------------------------------------------------------------
(* CreatePage's experience entries, part_003 lines 250-266, 328-375 and     *)
(* 391-429.  An entry is [job_title, start_date, end_date]: job_title       *)
(* stands for the fields updateExp stores unexamined (job_title, company,   *)
(* location, responsibilities).  A date is the string the code sees.        *)

ExpEntry(title, start, end) ==
    [job_title |-> title, start_date |-> start, end_date |-> end]

\* emptyExp(), line 266
emptyExp == ExpEntry("", "", "")

DateFields == {"start_date", "end_date"}
ExpFields == {"job_title"} \cup DateFields

\* what ReactDatePicker hands to onChange (react-datepicker.tsx line 28):
\* format(date, "MM/yyyy"), or "" when the date is cleared
PickerDates == {"", "01/2020", "06/2022"}

\* d.split(/[-\/]/), line 403, on the date strings used here
SplitDate(d) ==
    CASE d = "01/2020" -> <<"01", "2020">>
      [] d = "06/2022" -> <<"06", "2022">>
      [] d = "12-2019" -> <<"12", "2019">>
      [] OTHER -> <<d>>

\* parseInt, line 406, on the parts SplitDate yields
ParseInt(t) ==
    CASE t = "01" -> 1 [] t = "06" -> 6 [] t = "12" -> 12
      [] t = "2019" -> 2019 [] t = "2020" -> 2020 [] t = "2022" -> 2022

\* parseDate, lines 402-410: new Date(year, month - 1) as a count of months,
\* null when the string is not two non-empty parts
parseDate(d) ==
    LET parts == SplitDate(d)
    IN IF Len(parts) = 2 /\ parts[1] # "" /\ parts[2] # ""
       THEN Some(ParseInt(parts[2]) * 12 + (ParseInt(parts[1]) - 1))
       ELSE None

\* the test of lines 401-415 on the provisional entry
StartAfterEnd(entry) ==
    /\ entry.start_date # ""
    /\ entry.end_date # ""
    /\ ToLower(entry.end_date) # "present"
    /\ LET start == parseDate(entry.start_date)
           end == parseDate(entry.end_date)
       IN start # None /\ end # None /\ start[1] > end[1]

NoAlert == ""
DateAlert == "Start date cannot be after end date."

\* UpdateExpState with the date test left out: the provisional entry is stored
UpdateExpStateUnchecked(prev, i, field, value) ==
    [list |-> [prev EXCEPT ![i] = [prev[i] EXCEPT ![field] = value]],
     alert |-> NoAlert]

\* updateExp's state updaters, lines 396-428: the next experience list and
\* the alert raised
UpdateExpState(prev, i, field, value) ==
    LET entry == [prev[i] EXCEPT ![field] = value]
    IN IF field \in DateFields /\ StartAfterEnd(entry)
       THEN [list |-> prev, alert |-> DateAlert]
       ELSE [list |-> [prev EXCEPT ![i] = entry], alert |-> NoAlert]

\* the chevron of the Experience section, line 676
ToggleExperience ==
    /\ page = "create" /\ step = 1
    /\ showExperience' = ~showExperience
    /\ ev' = [op |-> "toggleExperience"]
    /\ UNCHANGED <<page, optVars, createVars, scoreVars, experience, sampleReq,
                   data, skillGap, scoreReq, job, extVars>>

\* updateExp(i, field, value), called by the inputs of lines 706-732, which
\* show while showExperience
UpdateExp ==
    /\ page = "create" /\ step = 1 /\ showExperience
    /\ \E i \in 1..Len(experience), field \in ExpFields :
          \E value \in (IF field \in DateFields THEN PickerDates ELSE FieldTexts) :
             /\ value # experience[i][field]
             /\ LET next == UpdateExpState(experience, i, field, value)
                IN /\ experience' = next.list
                   /\ ev' = [op |-> "updateExp", i |-> i, field |-> field,
                             value |-> value, alert |-> next.alert]
    /\ UNCHANGED <<page, optVars, createVars, scoreVars, showExperience,
                   sampleReq, data, skillGap, scoreReq, job, extVars>>

\* the Add Experience button, line 738
AddExperience ==
    /\ page = "create" /\ step = 1 /\ showExperience
    /\ Len(experience) < MaxExperience
    /\ experience' = Append(experience, emptyExp)
    /\ ev' = [op |-> "addExperience"]
    /\ UNCHANGED <<page, optVars, createVars, scoreVars, showExperience,
                   sampleReq, data, skillGap, scoreReq, job, extVars>>

\* the trash button of an entry, lines 695-701: shown while there are two
\* entries or more
RemoveExperience ==
    /\ page = "create" /\ step = 1 /\ showExperience
    /\ Len(experience) > 1
    /\ \E i \in 1..Len(experience) : experience' = RemoveAt(experience, i)
    /\ ev' = [op |-> "removeExperience"]
    /\ UNCHANGED <<page, optVars, createVars, scoreVars, showExperience,
                   sampleReq, data, skillGap, scoreReq, job, extVars>>

\* a /test_payload.json: the code takes whatever the file says (a key may be
\* missing: None for a list, Undef for a string)
Sample(ex, pr) ==
    [full_name |-> "x", phone |-> Undef, email |-> "x", target_role |-> "x",
     experience |-> ex, projects |-> pr]

\* what /test_payload.json may hold
CreateSamples ==
    { Sample(ex, None) :
        ex \in { None,
                 Some(<<>>),
                 Some(<<ExpEntry("x", "12-2019", "Present")>>),
                 Some(<<ExpEntry("x", "Jan 2020", Undef)>>),
                 Some(<<ExpEntry(Undef, "06/2022", "01/2020")>>) } }

\* sample files whose one experience entry is ongoing, or ended
OngoingSamples ==
    { Sample(Some(<<ExpEntry("x", "06/2022", end)>>), None) :
        end \in {Undef, "Present", "present", "PRESENT", "01/2020"} }

\* sample files with projects
LinkSamples ==
    { Sample(None, pr) :
        pr \in { None,
                 Some(<<Project("x", "u1")>>),
                 Some(<<Project(Undef, "u2")>>) } }

\* v ?? '' (lines 337-340) and v || '' (lines 343-347, 364-367) on strings
OrEmpty(v) == IF Falsy(v) THEN "" ELSE v

\* loadSample up to its await, lines 332-334; the button of line 550 is
\* never disabled, so any number of fetches may be in flight: sampleReq says
\* whether there is one, and a fetch that ends may or may not be the last
LoadSample ==
    /\ page = "create" /\ step = 1
    /\ sampleReq' = TRUE
    /\ ev' = [op |-> "loadSample"]
    /\ UNCHANGED <<page, optVars, createVars, scoreVars, experience,
                   showExperience, data, skillGap, scoreReq, job, extVars>>

\* loadSample after fetch and res.json() resolve, lines 336-370 (education
\* left out)
LoadSampleOk(samples) ==
    /\ page = "create"
    /\ sampleReq
    /\ \E sample \in samples :
          /\ fullName' = OrEmpty(sample.full_name)
          /\ phone' = OrEmpty(sample.phone)
          /\ email' = OrEmpty(sample.email)
          /\ targetRole' = OrEmpty(sample.target_role)
          /\ IF sample.experience # None
             THEN /\ experience' =
                        [k \in 1..Len(sample.experience[1]) |->
                            ExpEntry(OrEmpty(sample.experience[1][k].job_title),
                                     OrEmpty(sample.experience[1][k].start_date),
                                     OrEmpty(sample.experience[1][k].end_date))]
                  /\ showExperience' = TRUE
             ELSE UNCHANGED <<experience, showExperience>>
          /\ IF sample.projects # None
             THEN /\ projects' =
                        [k \in 1..Len(sample.projects[1]) |->
                            Project(OrEmpty(sample.projects[1][k].title),
                                    OrEmpty(sample.projects[1][k].link))]
                  /\ showProjects' = TRUE
             ELSE UNCHANGED <<projects, showProjects>>
    /\ sampleReq' \in BOOLEAN
    /\ ev' = [op |-> "loadSampleOk"]
    /\ UNCHANGED <<page, optVars, scoreVars, step, resumeData, atsScore, summary,
                   skills, genReq, data, skillGap, scoreReq, job, previewVars, dlVars, chatVars, apiVars>>

\* loadSample after the fetch fails or answers a non-success status, lines
\* 335 and 371-374
LoadSampleFail ==
    /\ page = "create"
    /\ sampleReq
    /\ sampleReq' \in BOOLEAN
    /\ ev' = [op |-> "loadSampleFail", alert |-> "Failed to load sample payload"]
    /\ UNCHANGED <<page, optVars, createVars, scoreVars, experience,
                   showExperience, data, skillGap, scoreReq, job, extVars>>

----------------------------------------------------------------------------
(* CreatePage's project entries, part_003 lines 430-431 and 745-800 *)

ProjFields == {"title", "link"}
ProjTexts == {"", "x", "u1"}

\* the chevron of the Projects section, line 749
ToggleProjects ==
    /\ page = "create" /\ step = 1
    /\ showProjects' = ~showProjects
    /\ ev' = [op |-> "toggleProjects"]
    /\ UNCHANGED <<page, optVars, createVars, scoreVars, formVars, skillGap,
                   scoreReq, job, projects, previewVars, dlVars, chatVars, apiVars>>

\* updateProj(i, field, value), lines 430-431, called by the inputs of lines
\* 779 and 783, which show while showProjects
UpdateProj ==
    /\ page = "create" /\ step = 1 /\ showProjects
    /\ \E i \in 1..Len(projects), field \in ProjFields, value \in ProjTexts :
          /\ value # projects[i][field]
          /\ field = "title" => value # "u1"
          /\ field = "link" => value # "x"
          /\ projects' = [projects EXCEPT ![i] = [projects[i] EXCEPT ![field] = value]]
          /\ ev' = [op |-> "updateProj", i |-> i, field |-> field, value |-> value]
    /\ UNCHANGED <<page, optVars, createVars, scoreVars, formVars, skillGap,
                   scoreReq, job, showProjects, previewVars, dlVars, chatVars, apiVars>>

\* the Add Project button, line 796
AddProject ==
    /\ page = "create" /\ step = 1 /\ showProjects
    /\ Len(projects) < MaxProjects
    /\ projects' = Append(projects, emptyProj)
    /\ ev' = [op |-> "addProject"]
    /\ UNCHANGED <<page, optVars, createVars, scoreVars, formVars, skillGap,
                   scoreReq, job, showProjects, previewVars, dlVars, chatVars, apiVars>>

\* the trash button of a project, lines 767-774: shown while there are two
\* projects or more
RemoveProject ==
    /\ page = "create" /\ step = 1 /\ showProjects
    /\ Len(projects) > 1
    /\ \E i \in 1..Len(projects) : projects' = RemoveAt(projects, i)
    /\ ev' = [op |-> "removeProject"]
    /\ UNCHANGED <<page, optVars, createVars, scoreVars, formVars, skillGap,
                   scoreReq, job, showProjects, previewVars, dlVars, chatVars, apiVars>>

----------------------------------------------------------------------------
(* ResumePreview, components/resume-preview.tsx: the Experience block of    *)
(* lines 54-79.  An experience entry of the data prop is [job_title,        *)
(* start_date, end_date], end_date Undef when the key is missing.           *)

PreviewEndDates == {Undef, "", "Present", "present", "PRESENT", "06/2022"}

\* the experience lists the data prop may carry
PreviewLists ==
    SeqUpTo({ExpEntry("x", "01/2020", end) : end \in PreviewEndDates},
            MaxExperience)

\* the span of lines 66-68: {exp.start_date} - {exp.end_date || "Present"}
DateSpan(exp) ==
    <<exp.start_date, " - ",
      IF Falsy(exp.end_date) THEN "Present" ELSE exp.end_date>>

\* the component is mounted with a data prop
ReceiveProps ==
    /\ page = "preview"
    /\ previewData = None
    /\ \E list \in PreviewLists : previewData' = Some(list)
    /\ ev' = [op |-> "props"]
    /\ UNCHANGED <<page, optVars, createVars, scoreVars, formVars, skillGap,
                   scoreReq, job, projVars, rendered, dlVars, chatVars, apiVars>>

\* data.experience.map of lines 58-76
RenderPreview ==
    /\ page = "preview"
    /\ previewData # None
    /\ rendered = None
    /\ rendered' = Some([k \in 1..Len(previewData[1]) |-> DateSpan(previewData[1][k])])
    /\ ev' = [op |-> "render"]
    /\ UNCHANGED <<page, optVars, createVars, scoreVars, formVars, skillGap,
                   scoreReq, job, projVars, previewData, dlVars, chatVars, apiVars>>

----------------------------------------------------------------------------
(* ChatPage, part_003 lines 25-206.  A message is [role, content], content  *)
(* a string.  An in-flight chatStream call keeps the newMessages the        *)
(* handler closed over and its local accumulated; received is the sequence  *)
(* of chunks the stream has yielded so far.                                 *)

Message(role, content) == [role |-> role, content |-> content]

InputTexts == {"", "  ", " hi "}
QUICK_PROMPTS == {"Analyze this job description for key requirements"}
Chunks == {"a", "b"}

\* String.prototype.trim on the texts used here
Trim(text) ==
    CASE text = "  " -> ""
      [] text = " hi " -> "hi"
      [] OTHER -> text

Apology == "Sorry, something went wrong. Please try again."

\* SendMessage without the test of the text: only streaming stops it
SendMessageUntrimmed(text) ==
    /\ page = "chat"
    /\ IF streaming
       THEN /\ ev' = [op |-> "sendMessage", text |-> text, sent |-> FALSE]
            /\ UNCHANGED chatVars
       ELSE LET userMsg == Message("user", Trim(text))
                newMessages == Append(messages, userMsg)
            IN /\ messages' = Append(newMessages, Message("assistant", ""))
               /\ input' = ""
               /\ streaming' = TRUE
               /\ streams' = Append(streams, [newMessages |-> newMessages,
                                              accumulated |-> "",
                                              received |-> <<>>])
               /\ ev' = [op |-> "sendMessage", text |-> text, sent |-> TRUE]
    /\ UNCHANGED <<page, optVars, createVars, scoreVars, formVars, skillGap,
                   scoreReq, job, projVars, previewVars, dlVars, apiVars>>

\* sendMessage(text) up to the first await of the for-await loop, lines
\* 38-57: the early return of line 39, then the user's message and an empty
\* assistant message are appended (React applies the two setMessages of
\* lines 43 and 49 together)
SendMessage(text) ==
    /\ page = "chat"
    /\ IF Trim(text) = "" \/ streaming
       THEN /\ ev' = [op |-> "sendMessage", text |-> text, sent |-> FALSE]
            /\ UNCHANGED chatVars
       ELSE LET userMsg == Message("user", Trim(text))
                newMessages == Append(messages, userMsg)
            IN /\ messages' = Append(newMessages, Message("assistant", ""))
               /\ input' = ""
               /\ streaming' = TRUE
               /\ streams' = Append(streams, [newMessages |-> newMessages,
                                              accumulated |-> "",
                                              received |-> <<>>])
               /\ ev' = [op |-> "sendMessage", text |-> text, sent |-> TRUE]
    /\ UNCHANGED <<page, optVars, createVars, scoreVars, formVars, skillGap,
                   scoreReq, job, projVars, previewVars, dlVars, apiVars>>

\* the chat input's onChange, line 188; the input is disabled while streaming
SetInput ==
    /\ page = "chat"
    /\ ~streaming
    /\ \E v \in InputTexts : v # input /\ input' = v
    /\ ev' = [op |-> "setInput"]
    /\ UNCHANGED <<page, optVars, createVars, scoreVars, formVars, skillGap,
                   scoreReq, job, projVars, previewVars, dlVars, messages,
                   streaming, streams, apiVars>>

\* Enter in the chat input, line 189 (a disabled input gets no key events)
KeyDownEnter ==
    /\ ~streaming
    /\ Len(messages) < 2 * MaxSends
    /\ SendMessage(input)

\* the Send button, lines 192-196: disabled while !input.trim() || streaming
ClickSend ==
    /\ Trim(input) # ""
    /\ ~streaming
    /\ Len(messages) < 2 * MaxSends
    /\ SendMessage(input)

\* a quick prompt, lines 122-131: shown while there are no messages
ClickQuickPrompt ==
    /\ messages = <<>>
    /\ \E prompt \in QUICK_PROMPTS : SendMessage(prompt)

\* ReceiveChunk with the chunk shown in place of the accumulated text
ReceiveChunkAlone(i) ==
    /\ page = "chat"
    /\ i \in 1..Len(streams)
    /\ Len(streams[i].received) < MaxChunks
    /\ \E chunk \in Chunks :
          /\ messages' = Append(streams[i].newMessages, Message("assistant", chunk))
          /\ streams' = [streams EXCEPT
                            ![i].accumulated = @ \o chunk,
                            ![i].received = Append(@, chunk)]
    /\ ev' = [op |-> "chunk"]
    /\ UNCHANGED <<page, optVars, createVars, scoreVars, formVars, skillGap,
                   scoreReq, job, projVars, previewVars, dlVars, input, streaming, apiVars>>

\* one turn of the for-await loop, lines 53-63, on a chunk chatStream yields
\* (api.ts lines 97-101)
ReceiveChunk(i) ==
    /\ page = "chat"
    /\ i \in 1..Len(streams)
    /\ Len(streams[i].received) < MaxChunks
    /\ \E chunk \in Chunks :
          LET accumulated == streams[i].accumulated \o chunk
          IN /\ messages' = Append(streams[i].newMessages,
                                   Message("assistant", accumulated))
             /\ streams' = [streams EXCEPT
                               ![i].accumulated = accumulated,
                               ![i].received = Append(@, chunk)]
    /\ ev' = [op |-> "chunk"]
    /\ UNCHANGED <<page, optVars, createVars, scoreVars, formVars, skillGap,
                   scoreReq, job, projVars, previewVars, dlVars, input, streaming, apiVars>>

\* the stream is done (api.ts line 99, or line 95 when there is no body):
\* the loop ends and the finally of lines 72-74 runs
StreamEnd(i) ==
    /\ page = "chat"
    /\ i \in 1..Len(streams)
    /\ streaming' = FALSE
    /\ streams' = RemoveAt(streams, i)
    /\ ev' = [op |-> "streamEnd"]
    /\ UNCHANGED <<page, optVars, createVars, scoreVars, formVars, skillGap,
                   scoreReq, job, projVars, previewVars, dlVars, messages, input, apiVars>>

\* chatStream throws, from checkedFetch (api.ts line 85) or from a read (line
\* 98): the catch of lines 64-71 and the finally of lines 72-74
StreamFail(i) ==
    /\ page = "chat"
    /\ i \in 1..Len(streams)
    /\ messages' = Append(streams[i].newMessages, Message("assistant", Apology))
    /\ streaming' = FALSE
    /\ streams' = RemoveAt(streams, i)
    /\ ev' = [op |-> "streamFail", newMessages |-> streams[i].newMessages]
    /\ UNCHANGED <<page, optVars, createVars, scoreVars, formVars, skillGap,
                   scoreReq, job, projVars, previewVars, dlVars, input, apiVars>>

----------------------------------------------------------------------------
(* The API wrappers, lib/api.ts.  A Response is [status, statusText, body]: *)
(* body is None when reading it fails, else the text.  An error is the      *)
(* record of the pieces its message is made of.                             *)

Wrappers ==
    {"generateResume", "scoreResume", "parseResume", "enhanceSection",
     "downloadResume", "chatStream"}

Statuses == {200, 201, 400, 404, 500}

StatusText(status) ==
    CASE status = 200 -> "OK" [] status = 201 -> "Created"
      [] status = 400 -> "Bad Request" [] status = 404 -> "Not Found"
      [] status = 500 -> "Internal Server Error"

\* what the backend may answer
Responses ==
    { [status |-> st, statusText |-> StatusText(st), body |-> b] :
        st \in Statuses, b \in {None, Some("{}"), Some("oops")} }

\* Response.ok: the status is in the range 200-299
Ok(res) == res.status \in 200..299

Fulfilled(value) == [kind |-> "fulfilled", value |-> value]
Rejected(error) == [kind |-> "rejected", error |-> error]

\* line 8: res.text().catch(() => "<unreadable response>")
TextOf(res) == IF res.body = None THEN "<unreadable response>" ELSE res.body[1]

\* line 10: new Error(`API ${res.status} ${res.statusText}: ${text}`)
ApiError(res) ==
    [name |-> "Error", status |-> res.status, statusText |-> res.statusText,
     text |-> TextOf(res)]

\* a wrapper is called, lines 15-102: it calls checkedFetch, which awaits
\* fetch (line 6)
CallWrapper ==
    /\ page = "api"
    /\ api.pc \in {"idle", "settled"}
    /\ \E w \in Wrappers : api' = [wrapper |-> w, pc |-> "fetch"]
    /\ response' = None
    /\ outcome' = None
    /\ ev' = [op |-> "call"]
    /\ UNCHANGED <<page, optVars, createVars, scoreVars, formVars, skillGap,
                   scoreReq, job, projVars, previewVars, dlVars, chatVars>>

\* fetch resolves with the backend's answer, line 6
FetchResolves ==
    /\ page = "api"
    /\ api.pc = "fetch"
    /\ \E res \in Responses : response' = Some(res)
    /\ api' = [api EXCEPT !.pc = "checked"]
    /\ ev' = [op |-> "fetchResolves"]
    /\ UNCHANGED <<page, optVars, createVars, scoreVars, formVars, skillGap,
                   scoreReq, job, projVars, previewVars, dlVars, chatVars,
                   outcome>>

\* fetch rejects (no answer from the backend): the wrapper rejects with
\* fetch's error
FetchRejects ==
    /\ page = "api"
    /\ api.pc = "fetch"
    /\ outcome' = Some(Rejected([name |-> "TypeError", status |-> 0,
                                 statusText |-> "", text |-> "Failed to fetch"]))
    /\ api' = [api EXCEPT !.pc = "settled"]
    /\ ev' = [op |-> "fetchRejects"]
    /\ UNCHANGED <<page, optVars, createVars, scoreVars, formVars, skillGap,
                   scoreReq, job, projVars, previewVars, dlVars, chatVars,
                   response>>

\* CheckedFetch without the test of res.ok: every response is returned
CheckedFetchUnchecked ==
    /\ page = "api"
    /\ api.pc = "checked"
    /\ api' = [api EXCEPT !.pc = "body"]
    /\ UNCHANGED outcome
    /\ ev' = [op |-> "checkedFetch"]
    /\ UNCHANGED <<page, optVars, createVars, scoreVars, formVars, skillGap,
                   scoreReq, job, projVars, previewVars, dlVars, chatVars,
                   response>>

\* checkedFetch after fetch resolved, lines 7-12: a response that is not ok
\* is thrown as an error, and the wrapper's await of checkedFetch rejects
\* with it; an ok response is returned to the wrapper
CheckedFetch ==
    /\ page = "api"
    /\ api.pc = "checked"
    /\ IF ~Ok(response[1])
       THEN /\ outcome' = Some(Rejected(ApiError(response[1])))
            /\ api' = [api EXCEPT !.pc = "settled"]
       ELSE /\ api' = [api EXCEPT !.pc = "body"]
            /\ UNCHANGED outcome
    /\ ev' = [op |-> "checkedFetch"]
    /\ UNCHANGED <<page, optVars, createVars, scoreVars, formVars, skillGap,
                   scoreReq, job, projVars, previewVars, dlVars, chatVars,
                   response>>

\* what the wrapper makes of the response checkedFetch returned: res.json()
\* (lines 30, 38, 46, 65), which rejects unless the body is JSON; res.blob()
\* (line 77); the decoded chunks of the body (lines 94-101)
ReadBody ==
    /\ page = "api"
    /\ api.pc = "body"
    /\ LET res == response[1] IN
          outcome' = Some(
              IF res.body = None
              THEN Rejected([name |-> "TypeError", status |-> 0,
                             statusText |-> "", text |-> "body stream error"])
              ELSE IF api.wrapper = "downloadResume"
                   THEN Fulfilled([blob |-> res.body[1]])
              ELSE IF api.wrapper = "chatStream"
                   THEN Fulfilled([chunks |-> res.body[1]])
              ELSE IF res.body[1] = "{}"
                   THEN Fulfilled([json |-> res.body[1]])
                   ELSE Rejected([name |-> "SyntaxError", status |-> 0,
                                  statusText |-> "", text |-> "Unexpected token"]))
    /\ api' = [api EXCEPT !.pc = "settled"]
    /\ ev' = [op |-> "readBody"]
    /\ UNCHANGED <<page, optVars, createVars, scoreVars, formVars, skillGap,
                   scoreReq, job, projVars, previewVars, dlVars, chatVars,
                   response>>

----------------------------------------------------------------------------
(* ResumeForm, part_001.  A JSON value is a record: type "object" with the  *)
(* keys of a ResumeData, or type "null" for a value that is no object.  The *)
(* value under a collection's key is [kind, items]: kind "array" with its   *)
(* items, "null", or "missing" when the object has no such key.             *)

Collections == {"skills", "experience", "education", "projects", "certifications"}

Arr(items) == [kind |-> "array", items |-> items]
JsonNullKey == [kind |-> "null", items |-> <<>>]
Missing == [kind |-> "missing", items |-> <<>>]

JsonObject(name, sk, ex, ed, pr, ce) ==
    [type |-> "object", full_name |-> name, skills |-> sk, experience |-> ex,
     education |-> ed, projects |-> pr, certifications |-> ce]

JsonNull ==
    [type |-> "null", full_name |-> Undef, skills |-> Missing,
     experience |-> Missing, education |-> Missing, projects |-> Missing,
     certifications |-> Missing]

\* emptyResume(), lines 4-17
emptyResume == JsonObject("", Arr(<<>>), Arr(<<>>), Arr(<<>>), Arr(<<>>), Arr(<<>>))

\* what the textarea may hold after an edit: a text is well-formed JSON
\* denoting a value, or it is not
TextareaTexts ==
    { [wellFormed |-> FALSE, value |-> JsonNull],
      [wellFormed |-> TRUE, value |-> JsonNull],
      [wellFormed |-> TRUE,
       value |-> JsonObject("x", Arr(<<"k0">>), Arr(<<>>), Arr(<<>>), Arr(<<>>),
                            Arr(<<>>))],
      [wellFormed |-> TRUE,
       value |-> JsonObject("x", JsonNullKey, Arr(<<>>), Arr(<<>>), Arr(<<>>),
                            Arr(<<>>))],
      [wellFormed |-> TRUE,
       value |-> JsonObject("x", Missing, Missing, Missing, Missing, Missing)] }

\* JSON.parse, line 24: the value, or None when it throws
JSONParse(text) == IF text.wellFormed THEN Some(text.value) ELSE None

\* onChangeTextarea, lines 22-29
OnChangeTextarea(text) ==
    /\ page = "form"
    /\ LET parsed == JSONParse(text)
       IN data' = IF parsed # None THEN parsed[1] ELSE data
    /\ ev' = [op |-> "onChangeTextarea"]
    /\ UNCHANGED <<page, optVars, createVars, scoreVars, experience,
                   showExperience, sampleReq, skillGap, scoreReq, job, extVars>>

\* what /test_payload.json may hold for ResumeForm: an object whose
\* collections are arrays, null or missing
FormSamples ==
    { JsonObject(Undef, sk, Arr(<<"e0">>), Missing, JsonNullKey, ce) :
        sk \in {Arr(<<"k0">>), JsonNullKey}, ce \in {Missing, Arr(<<>>)} }

\* v ?? [] of lines 42-46
OrEmptyList(v) == IF v.kind \in {"null", "missing"} THEN Arr(<<>>) ELSE v

\* ResumeForm.loadSample up to its await, lines 31-33
FormLoadSample ==
    /\ page = "form"
    /\ sampleReq' = TRUE
    /\ ev' = [op |-> "loadSample"]
    /\ UNCHANGED <<page, optVars, createVars, scoreVars, experience,
                   showExperience, data, skillGap, scoreReq, job, extVars>>

\* lines 35-47
FormLoadSampleOk ==
    /\ page = "form"
    /\ sampleReq
    /\ \E sample \in FormSamples :
          data' = JsonObject(OrEmpty(sample.full_name),
                             OrEmptyList(sample.skills),
                             OrEmptyList(sample.experience),
                             OrEmptyList(sample.education),
                             OrEmptyList(sample.projects),
                             OrEmptyList(sample.certifications))
    /\ sampleReq' \in BOOLEAN
    /\ ev' = [op |-> "loadSampleOk"]
    /\ UNCHANGED <<page, optVars, createVars, scoreVars, experience,
                   showExperience, skillGap, scoreReq, job, extVars>>

\* lines 34 and 48-51: the fetch failed, the status was no success, or the
\* payload was no object
FormLoadSampleFail ==
    /\ page = "form"
    /\ sampleReq
    /\ sampleReq' \in BOOLEAN
    /\ ev' = [op |-> "loadSampleFail", alert |-> "Failed to load sample payload"]
    /\ UNCHANGED <<page, optVars, createVars, scoreVars, experience,
                   showExperience, data, skillGap, scoreReq, job, extVars>>

\* clear, line 54
Clear ==
    /\ page = "form"
    /\ data' = emptyResume
    /\ ev' = [op |-> "clear"]
    /\ UNCHANGED <<page, optVars, createVars, scoreVars, experience,
                   showExperience, sampleReq, skillGap, scoreReq, job, extVars>>

----------------------------------------------------------------------------
(* ScorePage, part_004 lines 36-257 *)

ScoreResults == {"s1"}
SkillGaps == {"g1"}

\* <input type="file"> onChange, line 97
ScoreSetFile ==
    /\ page = "score"
    /\ \E f \in {None} \cup {Some(x) : x \in Files} :
          /\ f # file
          /\ file' = f
    /\ ev' = [op |-> "setFile"]
    /\ UNCHANGED <<page, loading, optimizing, enhancingSection, original,
                   originalScore, optimized, optimizedScore, parseReq, optReq,
                   enhReqs, createVars, scoreVars, auxVars>>

\* handleScore up to its await, lines 44-48; the button of line 106 is
\* disabled while !file || loading
HandleScore ==
    /\ page = "score"
    /\ file # None
    /\ ~loading
    /\ loading' = TRUE
    /\ scoreReq' = Some(file[1])
    /\ ev' = [op |-> "score"]
    /\ UNCHANGED <<page, file, optimizing, enhancingSection, original,
                   originalScore, optimized, optimizedScore, parseReq, optReq,
                   enhReqs, createVars, scoreVars, formVars, skillGap, job, extVars>>

\* handleScore after scoreResume resolves, lines 49-50 and 54
HandleScoreOk ==
    /\ page = "score"
    /\ scoreReq # None
    /\ \E sc \in ScoreResults, gap \in SkillGaps :
          /\ score' = Some(sc)
          /\ skillGap' = Some(gap)
    /\ loading' = FALSE
    /\ scoreReq' = None
    /\ ev' = [op |-> "scoreOk"]
    /\ UNCHANGED <<page, file, optimizing, enhancingSection, original,
                   originalScore, optimized, optimizedScore, parseReq, optReq,
                   enhReqs, createVars, roundingRule, svc, det, sem, formVars,
                   job, extVars>>

\* handleScore after scoreResume rejects, lines 51-54
HandleScoreFail ==
    /\ page = "score"
    /\ scoreReq # None
    /\ loading' = FALSE
    /\ scoreReq' = None
    /\ ev' = [op |-> "scoreFail", alert |-> "Scoring failed"]
    /\ UNCHANGED <<page, file, optimizing, enhancingSection, original,
                   originalScore, optimized, optimizedScore, parseReq, optReq,
                   enhReqs, createVars, scoreVars, formVars, skillGap, job, extVars>>

----------------------------------------------------------------------------
(* The scoring pipeline of the back end (backend/src/services/ats_scorer.py *)
(* is not among the sources: modelled from spec sections 4.2-4.4, 5 and 7,  *)
(* with the weights of PROMPTS.md).                                         *)

W_KEYWORD == 30
W_SECTIONS == 20
W_FORMATTING == 10
\* W_ROLE set to the weight of section completeness
W_ROLE_AsSections == W_SECTIONS

W_ROLE == 25
W_CONTENT == 15

\* the adapter retries once: two attempts in all
MaxAttempts == 2

ScoreValues == {0, 1, 33, 70, 100}
RoundingRules == {"half_up", "half_even"}

SemIdle == [pc |-> "idle", attempts |-> 0, failures |-> 0, result |-> None]

\* one hundred times the weighted sum of the five sub-scores
WeightedSum(k, c, f, r, q) ==
    W_KEYWORD * k + W_SECTIONS * c + W_FORMATTING * f + W_ROLE * r + W_CONTENT * q

\* round(s / 100) downwards, whatever the fraction
RoundDown(rule, s) == s \div 100

\* round(s / 100) under the rule for .5 cases
Round(rule, s) ==
    LET fl == s \div 100
        fr == s % 100
    IN IF fr < 50 THEN fl
       ELSE IF fr > 50 THEN fl + 1
       ELSE IF rule = "half_up" THEN fl + 1
       ELSE IF fl % 2 = 0 THEN fl ELSE fl + 1

\* score(resume, job_description) is called: both paths are issued
ScoreRequest ==
    /\ page = "backend"
    /\ svc = "idle"
    /\ svc' = "running"
    /\ sem' = [pc |-> "calling", attempts |-> 1, failures |-> 0, result |-> None]
    /\ UNCHANGED <<page, optVars, createVars, auxVars,
                   roundingRule, det, score, ev>>

\* the DeterministicScorer returns its three sub-scores (4.2)
DeterministicScore ==
    /\ page = "backend"
    /\ svc = "running"
    /\ det = None
    /\ \E k \in ScoreValues, c \in ScoreValues, f \in ScoreValues :
          det' = Some([keyword_match |-> k, section_completeness |-> c,
                       formatting_score |-> f])
    /\ UNCHANGED <<page, optVars, createVars, auxVars,
                   roundingRule, svc, sem, score, ev>>

\* the external service answers within the schema (4.3)
SemanticAnswer ==
    /\ page = "backend"
    /\ sem.pc = "calling"
    /\ \E r \in ScoreValues, q \in ScoreValues :
          sem' = [sem EXCEPT !.pc = "done",
                             !.result = Some([role_alignment |-> r,
                                              content_quality |-> q,
                                              explanation |-> "evaluated",
                                              suggestions |-> <<"s1">>])]
    /\ UNCHANGED <<page, optVars, createVars, auxVars,
                   roundingRule, svc, det, score, ev>>

\* SemanticFailure falling back on the first failure, with no retry
SemanticFailureNoRetry ==
    /\ page = "backend"
    /\ sem.pc = "calling"
    /\ sem' = [sem EXCEPT !.failures = @ + 1, !.pc = "fallback"]
    /\ UNCHANGED <<page, optVars, createVars, auxVars,
                   roundingRule, svc, det, score, ev>>

\* a schema violation or a timeout (4.3, 5): retry once, then fall back
SemanticFailure ==
    /\ page = "backend"
    /\ sem.pc = "calling"
    /\ sem' = IF sem.attempts < MaxAttempts
              THEN [sem EXCEPT !.failures = @ + 1, !.attempts = @ + 1]
              ELSE [sem EXCEPT !.failures = @ + 1, !.pc = "fallback"]
    /\ UNCHANGED <<page, optVars, createVars, auxVars,
                   roundingRule, svc, det, score, ev>>

\* the semantic path's two sub-scores, explanation and suggestions as the
\* aggregator sees them: the answer, or the fallback of 4.3
SemanticResult(s, d) ==
    IF s.pc = "done" THEN s.result[1]
    ELSE [role_alignment |-> d.keyword_match,
          content_quality |-> d.keyword_match,
          explanation |-> "semantic evaluation unavailable (degraded mode)",
          suggestions |-> <<>>]

\* the ATSScore of 4.4: the sub-scores as given and their weighted sum, rounded
ATSScoreOf(rule, d, sr) ==
    [overall_score |->
        Round(rule, WeightedSum(d.keyword_match, d.section_completeness,
                                d.formatting_score, sr.role_alignment,
                                sr.content_quality)),
     keyword_match |-> d.keyword_match,
     section_completeness |-> d.section_completeness,
     formatting_score |-> d.formatting_score,
     role_alignment |-> sr.role_alignment,
     content_quality |-> sr.content_quality,
     explanation |-> sr.explanation,
     suggestions |-> sr.suggestions]

\* Aggregate producing the result as soon as the deterministic sub-scores are
\* in, without waiting for the semantic path
AggregateEarly ==
    /\ page = "backend"
    /\ svc = "running"
    /\ det # None
    /\ score' = Some(ATSScoreOf(roundingRule, det[1], SemanticResult(sem, det[1])))
    /\ svc' = "done"
    /\ UNCHANGED <<page, optVars, createVars, auxVars, roundingRule, det, sem, ev>>

\* the ScoreAggregator (4.4, 5): joins the two paths
Aggregate ==
    /\ page = "backend"
    /\ svc = "running"
    /\ det # None
    /\ sem.pc \in {"done", "fallback"}
    /\ score' = Some(ATSScoreOf(roundingRule, det[1], SemanticResult(sem, det[1])))
    /\ svc' = "done"
    /\ UNCHANGED <<page, optVars, createVars, auxVars,
                   roundingRule, det, sem, ev>>

----------------------------------------------------------------------------
(* The DeterministicScorer's keyword and section sub-scorers and the        *)
(* SkillGapAnalyzer as functions of the request (spec 4.1, 4.2, 4.4, 4.8).  *)
(* A text is the sequence of its words; a keyword found as a substring or   *)
(* by stemming is a word equal to it ignoring case.  The KeywordExtractor   *)
(* yields lower-cased tokens.  The display cap on missing_keywords and the  *)
(* recommendations are left out.                                            *)

Range(list) == {list[i] : i \in 1..Len(list)}

Canonical(su, sk, ex, pr, ed) ==
    [summary |-> su, skills |-> sk, experience |-> ex, projects |-> pr,
     education |-> ed]

\* the resumes and keyword sets a request may carry
ScoredResumes ==
    { Canonical(su, sk, ex, pr, ed) :
        su \in {<<>>, <<"team">>},
        sk \in {<<>>, <<"Python">>, <<"Python", "react">>, <<"docker">>},
        ex \in {<<>>, <<[responsibilities |-> <<"Docker">>]>>},
        pr \in {<<>>, <<[description |-> <<"python">>]>>},
        ed \in {<<>>, <<"d0">>} }

KeywordSets == SUBSET {"python", "docker", "team"}

\* keywords of a "skill-like" shape (4.8)
SkillLike(k) == k \in {"python", "docker", "react"}

\* the flattened resume text: summary + skills + all responsibilities +
\* project descriptions
FlattenedText(r) ==
    Range(r.summary) \cup Range(r.skills)
      \cup UNION {Range(r.experience[i].responsibilities) : i \in 1..Len(r.experience)}
      \cup UNION {Range(r.projects[i].description) : i \in 1..Len(r.projects)}

Found(k, r) == \E w \in FlattenedText(r) : ToLower(w) = k

\* KeywordMatch with no case for the empty keyword set
KeywordMatchNoEmptyCase(r, kws) ==
    LET n == IF kws = {} THEN 1 ELSE Cardinality(kws)
    IN (100 * Cardinality({k \in kws : Found(k, r)})) \div n

\* keyword match (4.2): the fraction of the keyword set found, scaled to
\* 0..100; 100 when the set is empty
KeywordMatch(r, kws) ==
    IF kws = {} THEN 100
    ELSE (100 * Cardinality({k \in kws : Found(k, r)})) \div Cardinality(kws)

\* missing_keywords (4.4): the keywords not found in the flattened text
MissingKeywords(r, kws) == {k \in kws : ~Found(k, r)}

\* the four checks of section completeness (4.2)
SectionChecks(r) ==
    << r.summary # <<>>,
       Len(r.experience) + Len(r.projects) >= 1,
       Len(r.education) >= 1,
       Len(r.skills) >= 1 >>

\* SectionCompleteness counting a fifth check that is never satisfied
SectionCompletenessOfFive(r) ==
    LET checks == SectionChecks(r)
    IN (Cardinality({i \in 1..Len(checks) : checks[i]}) * 100) \div (Len(checks) + 1)

\* section completeness (4.2): satisfied checks / total checks x 100
SectionCompleteness(r) ==
    LET checks == SectionChecks(r)
    IN (Cardinality({i \in 1..Len(checks) : checks[i]}) * 100) \div Len(checks)

\* AnalyzeSkillGap matching a skill only when it is spelled as the keyword
AnalyzeSkillGapCaseSensitive(skillList, kws) ==
    [matched_skills |-> {sk \in Range(skillList) : sk \in kws},
     missing_skills |-> {k \in kws : SkillLike(k) /\ k \notin Range(skillList)}]

\* the SkillGapAnalyzer (4.8)
AnalyzeSkillGap(skillList, kws) ==
    [matched_skills |-> {sk \in Range(skillList) : ToLower(sk) \in kws},
     missing_skills |->
        {k \in kws : SkillLike(k) /\ \A sk \in Range(skillList) : ToLower(sk) # k}]

\* score(resume, job_description) is called with a resume and the keyword
\* set the KeywordExtractor derived
ReceiveRequest ==
    /\ page = "scorer"
    /\ job = None
    /\ \E r \in ScoredResumes, kws \in KeywordSets :
          job' = Some([resume |-> r, keywords |-> kws])
    /\ UNCHANGED <<page, optVars, createVars, scoreVars, formVars, skillGap,
                   scoreReq, extVars, ev>>

\* the keyword and section sub-scorers run on the request
RunDeterministicScorer ==
    /\ page = "scorer"
    /\ job # None
    /\ det = None
    /\ det' = Some([keyword_match |-> KeywordMatch(job[1].resume, job[1].keywords),
                    missing_keywords |-> MissingKeywords(job[1].resume, job[1].keywords),
                    section_completeness |-> SectionCompleteness(job[1].resume)])
    /\ UNCHANGED <<page, optVars, createVars, auxVars, roundingRule, svc, sem,
                   score, ev>>

\* the SkillGapAnalyzer runs alongside (2)
RunSkillGapAnalyzer ==
    /\ page = "scorer"
    /\ job # None
    /\ skillGap = None
    /\ skillGap' = Some(AnalyzeSkillGap(job[1].resume.skills, job[1].keywords))
    /\ UNCHANGED <<page, optVars, createVars, scoreVars, formVars, scoreReq,
                   job, extVars, ev>>

----------------------------------------------------------------------------
(* Specifications *)

InitPage(p) ==
    /\ page = p
    /\ file = None
    /\ loading = FALSE
    /\ optimizing = FALSE
    /\ enhancingSection = None
    /\ original = None
    /\ originalScore = None
    /\ optimized = None
    /\ optimizedScore = None
    /\ parseReq = None
    /\ optReq = None
    /\ enhReqs = <<>>
    /\ step = 1
    /\ fullName = ""
    /\ phone = ""
    /\ email = ""
    /\ targetRole = ""
    /\ resumeData = None
    /\ atsScore = None
    /\ summary = <<"">>
    /\ skills = <<"">>
    /\ genReq = None
    /\ roundingRule \in RoundingRules
    /\ svc = "idle"
    /\ det = None
    /\ sem = SemIdle
    /\ score = None
    /\ experience = <<emptyExp>>
    /\ showExperience = FALSE
    /\ sampleReq = FALSE
    /\ data = emptyResume
    /\ skillGap = None
    /\ scoreReq = None
    /\ job = None
    /\ projects = <<emptyProj>>
    /\ showProjects = FALSE
    /\ previewData = None
    /\ rendered = None
    /\ downloading = FALSE
    /\ dlReq = None
    /\ messages = <<>>
    /\ input = ""
    /\ streaming = FALSE
    /\ streams = <<>>
    /\ api = [wrapper |-> "", pc |-> "idle"]
    /\ response = None
    /\ outcome = None
    /\ ev = [op |-> "init"]

Init ==
    /\ \E p \in {"optimize", "layout", "create", "score"} : InitPage(p)
    /\ roundingRule = "half_up"

NextOptimize ==
    \/ SetFile
    \/ HandleParse
    \/ HandleParseOk(SmallOriginals)
    \/ HandleParseFail
    \/ HandleOptimize
    \/ HandleOptimizeOk(SmallRewrites)
    \/ HandleOptimizeFail
    \/ UploadNew
    \/ EditSummary
    \/ EditSkills
    \/ \E section \in Sections : HandleEnhance(section)
    \/ \E i \in 1..MaxEnhance : HandleEnhanceOk(i)
    \/ \E i \in 1..MaxEnhance : HandleEnhanceFail(i)

NextLayout ==
    \/ LayoutSetFile
    \/ LayoutHandleParse
    \/ LayoutHandleParseOk(SmallOriginals)
    \/ LayoutHandleParseFail
    \/ LayoutHandleOptimize
    \/ LayoutHandleOptimizeOk(SmallRewrites)
    \/ LayoutHandleOptimizeFail

NextCreate ==
    \/ SetFullName
    \/ SetTargetRole
    \/ SetEmail
    \/ SetPhone
    \/ HandleGenerate
    \/ HandleGenerateOk
    \/ HandleGenerateFail
    \/ \E to \in 1..3 : SetStep(to)
    \/ CreateEditSummary
    \/ CreateEditSkills
    \/ \E section \in Sections : CreateHandleEnhance(section)
    \/ \E i \in 1..MaxEnhance : CreateHandleEnhanceOk(i)
    \/ \E i \in 1..MaxEnhance : CreateHandleEnhanceFail(i)

NextScorePage ==
    \/ ScoreSetFile
    \/ HandleScore
    \/ HandleScoreOk
    \/ HandleScoreFail

Next == NextOptimize \/ NextLayout \/ NextCreate \/ NextScorePage

Spec == Init /\ [][Next]_vars

\* One upload-and-optimize round of OptimizePage over the rich sets of resumes
\* and rewrites
InitReconcile == InitPage("optimize") /\ roundingRule = "half_up"

NextReconcile ==
    \/ SetFile
    \/ HandleParse
    \/ HandleParseOk(RichOriginals)
    \/ HandleParseFail
    \/ HandleOptimize
    \/ HandleOptimizeOk(RichRewrites)
    \/ HandleOptimizeFail

SpecReconcile == InitReconcile /\ [][NextReconcile]_vars

\* The experience entries of CreatePage's form, and ResumeForm
InitForm ==
    /\ \E p \in {"create", "form"} : InitPage(p)
    /\ roundingRule = "half_up"

NextForm ==
    \/ ToggleExperience
    \/ UpdateExp
    \/ AddExperience
    \/ RemoveExperience
    \/ LoadSample
    \/ LoadSampleOk(CreateSamples)
    \/ LoadSampleFail
    \/ \E text \in TextareaTexts : OnChangeTextarea(text)
    \/ FormLoadSample
    \/ FormLoadSampleOk
    \/ FormLoadSampleFail
    \/ Clear

SpecForm == InitForm /\ [][NextForm]_vars

\* One invocation of the scoring pipeline
InitScore == InitPage("backend")

NextScore ==
    \/ ScoreRequest
    \/ DeterministicScore
    \/ SemanticAnswer
    \/ SemanticFailure
    \/ Aggregate

SpecScore == InitScore /\ [][NextScore]_vars

\* The deterministic sub-scorers and the skill gap analysis of one request
InitDeterministic == InitPage("scorer") /\ roundingRule = "half_up"

NextDeterministic ==
    \/ ReceiveRequest
    \/ RunDeterministicScorer
    \/ RunSkillGapAnalyzer

SpecDeterministic == InitDeterministic /\ [][NextDeterministic]_vars

\* Ongoing experience entries: the Create form's experience entries as a
\* sample file and the date pickers set them, the generate request, and the
\* preview of a resume
InitOngoing ==
    /\ \E p \in {"create", "preview"} : InitPage(p)
    /\ roundingRule = "half_up"

NextOngoing ==
    \/ LoadSample
    \/ LoadSampleOk(OngoingSamples)
    \/ LoadSampleFail
    \/ ToggleExperience
    \/ UpdateExp
    \/ SetPhone
    \/ HandleGenerate
    \/ HandleGenerateOk
    \/ HandleGenerateFail
    \/ \E to \in 1..3 : SetStep(to)
    \/ ReceiveProps
    \/ RenderPreview

SpecOngoing == InitOngoing /\ [][NextOngoing]_vars

\* The Create form's project entries and the generate request
InitLinks == InitPage("create") /\ roundingRule = "half_up"

NextLinks ==
    \/ LoadSample
    \/ LoadSampleOk(LinkSamples)
    \/ LoadSampleFail
    \/ SetPhone
    \/ ToggleProjects
    \/ UpdateProj
    \/ AddProject
    \/ RemoveProject
    \/ HandleGenerate
    \/ HandleGenerateOk
    \/ HandleGenerateFail
    \/ \E to \in 1..3 : SetStep(to)

SpecLinks == InitLinks /\ [][NextLinks]_vars

\* The Create wizard from the required fields to the download
WizardSamples == {Sample(None, None)}

InitWizard == InitPage("create") /\ roundingRule = "half_up"

NextWizard ==
    \/ SetFullName
    \/ SetTargetRole
    \/ SetEmail
    \/ SetPhone
    \/ LoadSample
    \/ LoadSampleOk(WizardSamples)
    \/ LoadSampleFail
    \/ HandleGenerate
    \/ HandleGenerateOk
    \/ HandleGenerateFail
    \/ \E to \in 1..3 : SetStep(to)
    \/ CreateEditSummary
    \/ CreateEditSkills
    \/ HandleDownload
    \/ HandleDownloadOk
    \/ HandleDownloadFail

SpecWizard == InitWizard /\ [][NextWizard]_vars

\* ChatPage
InitChat == InitPage("chat") /\ roundingRule = "half_up"

NextChat ==
    \/ SetInput
    \/ KeyDownEnter
    \/ ClickSend
    \/ ClickQuickPrompt
    \/ \E i \in 1..MaxSends : ReceiveChunk(i)
    \/ \E i \in 1..MaxSends : StreamEnd(i)
    \/ \E i \in 1..MaxSends : StreamFail(i)

SpecChat == InitChat /\ [][NextChat]_vars

\* ChatPage when every reply's stream ends or fails: the response of the
\* chat request is closed, or the read of it rejects
SpecChatLive ==
    /\ InitChat
    /\ [][NextChat]_vars
    /\ WF_vars(\E i \in 1..MaxSends : StreamEnd(i) \/ StreamFail(i))

\* One call after another of the API wrappers
InitApi == InitPage("api") /\ roundingRule = "half_up"

NextApi ==
    \/ CallWrapper
    \/ FetchResolves
    \/ FetchRejects
    \/ CheckedFetch
    \/ ReadBody

SpecApi == InitApi /\ [][NextApi]_vars

----------------------------------------------------------------------------
(* Claims about the reconciliation of handleOptimize.  After the step       *)
(* "optimizeOk", ev.orig is the original the handler closed over, ev.res    *)
(* the rewrite generateResume returned, optimized the value stored.         *)

Stored == ev.op = "optimizeOk" /\ optimized # None

\* titles equal ignoring case
SameTitle(p, q) == ToLower(p.title) = ToLower(q.title)

\* the original projects whose title equals, ignoring case, that of p
Namesakes(p, origProjects) ==
    {j \in 1..Len(origProjects) : SameTitle(p, origProjects[j])}

C2_LinkNeverDropped ==
    Stored =>
        \A j \in 1..Len(ev.orig.projects) :
            ~Falsy(ev.orig.projects[j].link) =>
                \E i \in 1..Len(optimized[1].projects) :
                    /\ ~Falsy(optimized[1].projects[i].link)
                    /\ \/ optimized[1].projects[i].link = ev.orig.projects[j].link
                       \/ SameTitle(optimized[1].projects[i], ev.orig.projects[j])

\* C3 as the spec states it: linkedin and location of the stored optimized
\* resume equal the original's values whenever the original had them.
C3_ContactFieldsRestored ==
    Stored =>
        /\ ~Falsy(ev.orig.linkedin) => optimized[1].linkedin = ev.orig.linkedin
        /\ ~Falsy(ev.orig.location) => optimized[1].location = ev.orig.location

\* C4 as the spec states it: a rewritten project whose title matches,
\* ignoring case, an original project with a link (the only one of that
\* title), and whose own non-empty link differs, gets the original link back.
C4_AlteredLinkRestored ==
    Stored =>
        \A i \in 1..Len(ev.res.projects) : \A j \in 1..Len(ev.orig.projects) :
            ( /\ ~Falsy(ev.res.projects[i].link)
              /\ ev.res.projects[i].title # ""
              /\ Namesakes(ev.res.projects[i], ev.orig.projects) = {j}
              /\ ~Falsy(ev.orig.projects[j].link)
              /\ ev.res.projects[i].link # ev.orig.projects[j].link )
            => optimized[1].projects[i].link = ev.orig.projects[j].link

\* C5 as the spec states it: whatever handleOptimize stores after a generate
\* call has the dropped contact fields and the dropped project links merged
\* back from the original.
C5_StoredIsReconciled ==
    Stored =>
        /\ (Falsy(ev.res.linkedin) /\ ~Falsy(ev.orig.linkedin))
              => optimized[1].linkedin = ev.orig.linkedin
        /\ (Falsy(ev.res.location) /\ ~Falsy(ev.orig.location))
              => optimized[1].location = ev.orig.location
        /\ \A i \in 1..Len(ev.res.projects) : \A j \in 1..Len(ev.orig.projects) :
              ( /\ Falsy(ev.res.projects[i].link)
                /\ ev.res.projects[i].title # ""
                /\ Namesakes(ev.res.projects[i], ev.orig.projects) = {j}
                /\ ~Falsy(ev.orig.projects[j].link) )
              => optimized[1].projects[i].link = ev.orig.projects[j].link

\* C6 as the spec states it: when two original projects share a title
\* (ignoring case), a rewritten project of that title is matched against the
\* first of them: its link is patched from the first one, and only from it.
C6_FirstMatchWins ==
    Stored =>
        \A i \in 1..Len(ev.res.projects) :
            LET p == ev.res.projects[i]
                same == Namesakes(p, ev.orig.projects)
            IN (p.title # "" /\ Cardinality(same) >= 2) =>
                  LET first == ev.orig.projects[CHOOSE j \in same : \A k \in same : j <= k]
                  IN optimized[1].projects[i].link =
                        IF Falsy(p.link) /\ ~Falsy(first.link) THEN first.link
                        ELSE p.link

----------------------------------------------------------------------------
(* Claims about handleEnhance (OptimizePage and CreatePage).  A step with   *)
(* ev'.op = "enhanceOk" is the completion of an enhance call for the        *)
(* section ev'.section, one with "enhanceFail" its failure.                 *)

ResumeFields ==
    {"linkedin", "location", "summary", "skills", "experience", "education",
     "projects"}

\* C7 as the spec states it: the completion of enhance for one section
\* changes only that section's field; every other field of the resume the
\* page holds keeps the value it had just before the completion.
C7_EnhancerIsolation ==
    [][ ev'.op = "enhanceOk" =>
          /\ (page = "optimize" /\ optimized # None) =>
                /\ optimized' # None
                /\ \A f \in ResumeFields \ {ev'.section} :
                      optimized'[1][f] = optimized[1][f]
          /\ page = "create" =>
                /\ resumeData' = resumeData
                /\ ev'.section = "summary" => skills' = skills
                /\ ev'.section = "skills" => summary' = summary
      ]_vars

\* C8: when the enhance call fails, the step leaves the section's content and
\* every other field of the held resume as they were, and clears the
\* in-progress indicator.
C8_FailureKeepsContent ==
    [][ ev'.op = "enhanceFail" =>
          /\ optimized' = optimized
          /\ original' = original
          /\ resumeData' = resumeData
          /\ summary' = summary
          /\ skills' = skills
          /\ enhancingSection' = None
      ]_vars

\* an enhance call of OptimizePage has failed after the user edited the
\* summary; the edit is on screen and no section is marked in progress
C8_Witness ==
    /\ ev.op = "enhanceFail"
    /\ page = "optimize"
    /\ optimized # None
    /\ optimized[1].summary \in EditTexts
    /\ enhancingSection = None

----------------------------------------------------------------------------
(* Claims about the scoring pipeline *)

\* one hundred times the weighted sum of the sub-scores an ATSScore carries
SumOf(a) ==
    30 * a.keyword_match + 20 * a.section_completeness + 10 * a.formatting_score
        + 25 * a.role_alignment + 15 * a.content_quality

\* C9: for sub-scores in 0..100 the overall score of a produced ATSScore is
\* in 0..100 and is the weighted sum 0.30 k + 0.20 c + 0.10 f + 0.25 r + 0.15 q
\* of the five sub-scores it carries, rounded to the nearest integer, a .5
\* case always going the way of the one rule fixed at start-up.
C9_OverallIsRoundedWeightedSum ==
    score # None =>
        LET a == score[1]
            o == a.overall_score
        IN /\ o \in 0..100
           /\ 100 * o - SumOf(a) \in -50..50
           /\ SumOf(a) % 100 = 50 =>
                 IF roundingRule = "half_up" THEN 100 * o > SumOf(a)
                 ELSE o % 2 = 0

\* a score was produced from two different semantic sub-scores whose weighted
\* sum with the others ends in .5, and it was rounded upwards
C9_Witness ==
    /\ score # None
    /\ SumOf(score[1]) % 100 = 50
    /\ 100 * score[1].overall_score > SumOf(score[1])
    /\ score[1].role_alignment # score[1].content_quality

\* C10: the semantic evaluator makes at most two attempts, the second right
\* after the first failure; it falls back only after the second failure; the
\* score aggregated from the fallback has role_alignment = content_quality =
\* keyword_match, an explanation flagging degraded mode, no suggestions and
\* the overall score computed from these; and once the fallback is reached
\* the aggregator can always produce the score.
C10_RetryOnceThenFallback ==
    /\ sem.attempts <= 2
    /\ (sem.failures = 1 /\ sem.pc # "fallback") => sem.attempts = 2
    /\ sem.pc = "fallback" => (sem.attempts = 2 /\ sem.failures = 2)
    /\ (sem.pc = "fallback" /\ det # None /\ score = None) => ENABLED Aggregate
    /\ (sem.pc = "fallback" /\ score # None) =>
          /\ score[1].role_alignment = score[1].keyword_match
          /\ score[1].content_quality = score[1].keyword_match
          /\ score[1].explanation = "semantic evaluation unavailable (degraded mode)"
          /\ score[1].suggestions = <<>>
          /\ 100 * score[1].overall_score - SumOf(score[1]) \in -50..50

\* the service failed twice and a score was returned all the same
C10_Witness ==
    /\ sem.pc = "fallback"
    /\ sem.failures = 2
    /\ score # None
    /\ score[1].keyword_match = 70
    /\ score[1].role_alignment = 70

\* C11: the aggregator produces its result only once the deterministic
\* scorer has completed and the semantic evaluator has answered or fallen
\* back; and the deterministic scorer can complete whatever the semantic
\* path is doing (in flight, retrying, answered, fallen back).
C11_AggregatorJoinsBothPaths ==
    /\ score # None =>
          /\ det # None
          /\ sem.pc \in {"done", "fallback"}
    /\ (svc = "running" /\ det = None) => ENABLED DeterministicScore

\* the deterministic sub-scores are in while the semantic call, on its second
\* attempt, is still in flight, and no score has been produced
C11_Witness ==
    /\ svc = "running"
    /\ det # None
    /\ sem.pc = "calling"
    /\ sem.attempts = 2
    /\ score = None

----------------------------------------------------------------------------
(* Claims about the deterministic sub-scorers and the skill gap analysis    *)

\* C12: whatever the resume, when the keyword set derived from the job
\* description is empty, keyword_match is 100 and missing_keywords is empty.
C12_EmptyKeywordSet ==
    (job # None /\ det # None /\ job[1].keywords = {}) =>
        /\ det[1].keyword_match = 100
        /\ det[1].missing_keywords = {}

\* a resume with skills and a summary was scored against an empty keyword set
C12_Witness ==
    /\ job # None /\ det # None
    /\ job[1].keywords = {}
    /\ job[1].resume.skills = <<"Python", "react">>
    /\ job[1].resume.summary # <<>>
    /\ det[1].keyword_match = 100

\* the number of the four section checks a resume satisfies
SatisfiedChecks(r) ==
    (IF r.summary # <<>> THEN 1 ELSE 0)
    + (IF r.experience # <<>> \/ r.projects # <<>> THEN 1 ELSE 0)
    + (IF r.education # <<>> THEN 1 ELSE 0)
    + (IF r.skills # <<>> THEN 1 ELSE 0)

\* C14: section completeness is (satisfied checks / 4) x 100 over the checks
\* non-empty summary, an experience or project entry, an education entry, a
\* skill; a resume with empty summary, one experience entry, no education
\* and one skill scores 50.
C14_SectionCompleteness ==
    (job # None /\ det # None) =>
        LET r == job[1].resume
        IN /\ 4 * det[1].section_completeness = 100 * SatisfiedChecks(r)
           /\ ( /\ r.summary = <<>>
                /\ Len(r.experience) = 1
                /\ r.education = <<>>
                /\ Len(r.skills) = 1 )
              => det[1].section_completeness = 50

\* the resume of the example, without projects, was scored 50
C14_Witness ==
    /\ job # None /\ det # None
    /\ job[1].resume.summary = <<>>
    /\ Len(job[1].resume.experience) = 1
    /\ job[1].resume.projects = <<>>
    /\ job[1].resume.education = <<>>
    /\ Len(job[1].resume.skills) = 1
    /\ det[1].section_completeness = 50

\* C15: a resume skill is in matched_skills exactly when its lower-cased
\* form is in the keyword set; every skill-like keyword that no resume skill
\* equals ignoring case is in missing_skills; skills [Python, react] with
\* keywords {python, docker} give Python matched and docker missing.
C15_SkillGapIgnoresCase ==
    (job # None /\ skillGap # None) =>
        LET sks == job[1].resume.skills
            kws == job[1].keywords
            gap == skillGap[1]
        IN /\ \A i \in 1..Len(sks) :
                 sks[i] \in gap.matched_skills <=> ToLower(sks[i]) \in kws
           /\ gap.matched_skills \subseteq Range(sks)
           /\ \A k \in kws :
                 (SkillLike(k) /\ \A i \in 1..Len(sks) : ToLower(sks[i]) # k)
                    => k \in gap.missing_skills
           /\ (sks = <<"Python", "react">> /\ kws = {"python", "docker"})
                 => /\ "Python" \in gap.matched_skills
                    /\ "docker" \in gap.missing_skills

\* the example: Python matched against python, docker missing
C15_Witness ==
    /\ job # None /\ skillGap # None
    /\ job[1].resume.skills = <<"Python", "react">>
    /\ job[1].keywords = {"python", "docker"}
    /\ skillGap[1].matched_skills = {"Python"}
    /\ skillGap[1].missing_skills = {"docker"}

----------------------------------------------------------------------------
(* Claims about the forms *)

\* C16 as the spec states it: in every state of the Create form, every
\* experience entry whose start_date and end_date both parse as month/year
\* has a start_date that is not after its end_date.
C16_StartNotAfterEnd ==
    page = "create" =>
        \A i \in 1..Len(experience) :
            LET start == parseDate(experience[i].start_date)
                end == parseDate(experience[i].end_date)
            IN (start # None /\ end # None) => start[1] <= end[1]

\* C17 as the spec states it: the value ResumeForm holds is a resume whose
\* collections (skills, experience, education, projects, certifications)
\* are sequences, never null or missing.
C17_CollectionsAreSequences ==
    page = "form" =>
        /\ data.type = "object"
        /\ \A c \in Collections : data[c].kind = "array"

\* the edited entry's dates parse as month/year and the start is later
Inverted(entry) ==
    LET start == parseDate(entry.start_date)
        end == parseDate(entry.end_date)
    IN start # None /\ end # None /\ start[1] > end[1]

\* C20: a date edit through updateExp that would make the entry's start_date
\* later than its end_date raises the warning and leaves the whole
\* experience list as it was.
C20_InvertingEditRejected ==
    [][ (ev'.op = "updateExp" /\ ev'.field \in DateFields) =>
          ( Inverted([experience[ev'.i] EXCEPT ![ev'.field] = ev'.value]) =>
               /\ ev'.alert = DateAlert
               /\ experience' = experience )
      ]_vars

\* an end date earlier than the entry's start date was picked and refused:
\* the entry still has the end date it had
C20_Witness ==
    /\ ev.op = "updateExp"
    /\ ev.field = "end_date"
    /\ ev.value = "01/2020"
    /\ ev.alert = DateAlert
    /\ experience[ev.i].start_date = "06/2022"
    /\ experience[ev.i].end_date # "01/2020"

----------------------------------------------------------------------------
(* Claims about failing and abandoned requests *)

FailureSteps == {"parseFail", "optimizeFail", "generateFail", "scoreFail"}

\* C18: when a parse, generate, optimize or score request fails, the step
\* shows the failure, leaves the resume and score state the page holds as
\* it was, and puts the request's in-progress flag back to false.
C18_FailureShownStateKept ==
    [][ ev'.op \in FailureSteps =>
          /\ ev'.alert \in {"Parse failed", "Optimization failed",
                            "Generation failed", "Scoring failed"}
          /\ <<original, originalScore, optimized, optimizedScore>>'
                = <<original, originalScore, optimized, optimizedScore>>
          /\ <<resumeData, atsScore, summary, skills>>'
                = <<resumeData, atsScore, summary, skills>>
          /\ <<score, skillGap>>' = <<score, skillGap>>
          /\ ev'.op \in {"parseFail", "generateFail", "scoreFail"} => loading' = FALSE
          /\ ev'.op = "optimizeFail" => optimizing' = FALSE
      ]_vars

\* a parse request of OptimizePage has failed: nothing is held, the file is
\* still selected and the button is enabled again
C18_Witness ==
    /\ ev.op = "parseFail"
    /\ page = "optimize"
    /\ file # None
    /\ ~loading
    /\ original = None

\* C19 as the spec states it: the result of an optimize request abandoned by
\* Upload New is never stored, so a non-null optimized resume always goes
\* with the original it was produced from.
C19_AbandonedResultDiscarded ==
    page = "optimize" => (optimized # None => original # None)

----------------------------------------------------------------------------
(* Claims about concurrent enhance calls.  enhReqs holds the enhanceSection *)
(* calls in flight; a section's Enhance button is disabled exactly while    *)
(* enhancingSection is that section.                                        *)

\* the enhance calls in flight for a section
InFlightFor(section) == {i \in 1..Len(enhReqs) : enhReqs[i].section = section}

\* C23 as the spec states it: while an enhance request for a section is in
\* flight that section's Enhance button is disabled, and at most one enhance
\* request per section is in flight, also when the other section's call
\* completes first.
C23_OneEnhancePerSection ==
    \A section \in Sections :
        /\ InFlightFor(section) # {} => enhancingSection = Some(section)
        /\ Cardinality(InFlightFor(section)) <= 1

----------------------------------------------------------------------------
(* Claims about what the reconciliation leaves alone *)

\* C24: reconciliation changes nothing but linkedin, location and project
\* links: after handleOptimize succeeds the stored optimized resume has as
\* many projects as the rewrite returned, with the same titles at the same
\* positions, and the rewrite's summary, skills, experience and education;
\* the original resume and the original score are as before the step.
C24_ReconcileFrame ==
    [][ ev'.op = "optimizeOk" =>
          /\ optimized' # None
          /\ LET merged == optimized'[1]
                 res == ev'.res
             IN /\ Len(merged.projects) = Len(res.projects)
                /\ \A i \in 1..Len(res.projects) :
                      merged.projects[i].title = res.projects[i].title
                /\ merged.summary = res.summary
                /\ merged.skills = res.skills
                /\ merged.experience = res.experience
                /\ merged.education = res.education
          /\ original' = original
          /\ originalScore' = originalScore
      ]_vars

\* a rewrite with two projects was stored with a link patched and with the
\* summary, skills, experience and education the rewrite brought, which
\* differ from the original's
C24_Witness ==
    /\ Stored
    /\ Len(ev.res.projects) = 2
    /\ \E i \in 1..2 : optimized[1].projects[i].link # ev.res.projects[i].link
    /\ optimized[1].summary = ev.res.summary
    /\ ev.res.summary # ev.orig.summary
    /\ ev.res.skills # ev.orig.skills
    /\ ev.res.experience # ev.orig.experience
    /\ original = Some(ev.orig)

\* C25: reconciliation is idempotent: reconciling the stored, already
\* reconciled resume against the same original yields the same resume.
C25_ReconcileIdempotent ==
    Stored => Reconcile(optimized[1], ev.orig) = optimized[1]

\* a reconciled resume that differs from the rewrite in a contact field, and
\* one that differs in a project link
C25_Witness ==
    /\ Stored
    /\ optimized[1] = Reconcile(ev.res, ev.orig)
    /\ \/ optimized[1].linkedin # ev.res.linkedin /\ ~Falsy(optimized[1].linkedin)
       \/ \E i \in 1..Len(ev.res.projects) :
             /\ optimized[1].projects[i].link # ev.res.projects[i].link
             /\ Len(ev.orig.projects) = 2

----------------------------------------------------------------------------
(* Claims about the text handleGenerate sends.  After the step "generate",  *)
(* ev.existing_resume_text is the text built from the form as it stands.    *)

\* an entry whose end_date is absent or is Present in any letter case
Ongoing(e) == Falsy(e.end_date) \/ ToLower(e.end_date) = "present"

\* the parts of a text that are experience lines
ExperienceLines(text) ==
    IF text = None THEN {}
    ELSE {text[1][j] : j \in {k \in 1..Len(text[1]) : Len(text[1][k]) = 6}}

\* every ongoing entry of the form that has a job title has a line in the
\* text sent, ending in Present
SerializedAsPresent ==
    ev.op = "generate" =>
        \A k \in 1..Len(experience) :
            (Ongoing(experience[k]) /\ ~Falsy(experience[k].job_title)) =>
                \E line \in ExperienceLines(ev.existing_resume_text) :
                    /\ line[2] = experience[k].job_title
                    /\ line[6] = "Present"

\* the preview shows every ongoing entry with the end date Present
DisplayedAsPresent ==
    rendered # None =>
        \A k \in 1..Len(previewData[1]) :
            Ongoing(previewData[1][k]) => rendered[1][k][3] = "Present"

\* C21 as the spec states it: an experience entry whose end_date is absent,
\* or is Present in any letter case, is ongoing: updateExp stores the edit
\* that leaves it so without the date alert, the text buildExistingResumeText
\* makes of it ends in Present, and the preview shows its end date as Present.
C21_OngoingShownAsPresent ==
    [][ /\ ev'.op = "updateExp" =>
              LET entry == [experience[ev'.i] EXCEPT ![ev'.field] = ev'.value]
              IN Ongoing(entry) =>
                    /\ ev'.alert = NoAlert
                    /\ experience' = [experience EXCEPT ![ev'.i] = entry]
        /\ SerializedAsPresent'
        /\ DisplayedAsPresent'
      ]_vars

\* the link pieces of the project lines of a text
LinksIn(text) ==
    IF text = None THEN {}
    ELSE {text[1][j][4] : j \in {k \in 1..Len(text[1]) : Len(text[1][k]) = 5}}

\* C22 as the spec states it: every non-empty project link of the Create form
\* appears unchanged in the existing-resume text sent with the generate
\* request, whatever the form holds.
C22_LinksReachGenerate ==
    ev.op = "generate" =>
        \A k \in 1..Len(projects) :
            ~Falsy(projects[k].link) =>
                projects[k].link \in LinksIn(ev.existing_resume_text)

----------------------------------------------------------------------------
(* Claims about the Create wizard *)

\* C26: the step is always 1, 2 or 3; step 2 is entered from step 1 only by
\* a successful generate, and the other moves are 2 to 3, 3 to 2 and 2 to 1;
\* whenever the step is 2 or 3 the generated resume is non-null; a generate
\* request is issued only when full name, email, phone and target role are
\* all non-empty and no generate request is in flight.
C26_WizardSteps ==
    [][ /\ step' \in {1, 2, 3}
        /\ step' \in {2, 3} => resumeData' # None
        /\ step' # step =>
              \/ step = 1 /\ step' = 2 /\ ev'.op = "generateOk"
              \/ <<step, step'>> \in {<<2, 3>>, <<3, 2>>, <<2, 1>>}
        /\ ev'.op = "generate" =>
              /\ fullName # "" /\ email # "" /\ phone # "" /\ targetRole # ""
              /\ genReq = None
              /\ genReq' # None
      ]_vars

\* a second generate request is in flight, issued from step 1 after the user
\* came back from steps 2 and 3 with a resume already generated
C26_Witness ==
    /\ page = "create"
    /\ ev.op = "generate"
    /\ step = 1
    /\ resumeData # None
    /\ genReq # None
    /\ summary \in EditTexts

\* C29: the resume sent with a download request is the generated resume with
\* summary replaced by the summary as edited and skills by the non-empty
\* lines of the skills text as edited, every other field as generated; no
\* download request is issued while the generated resume is null.
C29_DownloadFrame ==
    [][ ev'.op = "download" =>
          /\ resumeData # None
          /\ dlReq' # None
          /\ ev'.resumeData.summary = summary
          /\ ev'.resumeData.skills = FilterBoolean(Split(skills))
          /\ \A k \in 1..Len(ev'.resumeData.skills) : ev'.resumeData.skills[k] # ""
          /\ \A f \in ResumeFields \ {"summary", "skills"} :
                ev'.resumeData[f] = resumeData[1][f]
      ]_vars

\* a download request was issued after the user edited both the summary and
\* the skills, the skills text holding an empty line
C29_Witness ==
    /\ ev.op = "download"
    /\ summary \in EditTexts
    /\ skills \in EditTexts
    /\ \E k \in 1..Len(skills) : skills[k] = ""
    /\ resumeData # None
    /\ resumeData[1].summary # summary
    /\ ev.resumeData.skills # resumeData[1].skills

----------------------------------------------------------------------------
(* Claims about the chat page.  A step with ev'.op = "sendMessage" is a     *)
(* call of sendMessage(ev'.text), "chunk" one turn of the for-await loop,   *)
(* "streamEnd" and "streamFail" the end of the reply.                       *)

\* the list alternates user and assistant messages, from a user message to
\* an assistant message
Alternates(list) ==
    /\ Len(list) % 2 = 0
    /\ \A k \in 1..Len(list) :
          list[k].role = IF k % 2 = 1 THEN "user" ELSE "assistant"

\* C27: sendMessage changes nothing when the text is empty or whitespace or
\* when a reply is streaming; at most one stream is in flight; the message
\* list alternates user and assistant messages, starting with a user message
\* and ending with an assistant message.
C27_OneStreamAlternating ==
    [][ /\ ( /\ ev'.op = "sendMessage"
             /\ (Trim(ev'.text) = "" \/ streaming) )
              => /\ messages' = messages
                 /\ input' = input
                 /\ streaming' = streaming
                 /\ streams' = streams
        /\ Len(streams') <= 1
        /\ Alternates(messages')
      ]_vars

\* after a first exchange has ended, Enter with a whitespace text was ignored
C27_Witness ==
    /\ ev.op = "sendMessage"
    /\ ~ev.sent
    /\ ev.text = "  "
    /\ Len(messages) = 2
    /\ messages[2].content = "ab"
    /\ ~streaming

\* the concatenation of the chunks, in order
RECURSIVE Concat(_)
Concat(chunks) ==
    IF chunks = <<>> THEN "" ELSE Head(chunks) \o Concat(Tail(chunks))

\* all messages but the last
Front(list) == SubSeq(list, 1, Len(list) - 1)

----------------------------------------------------------------------------
(* Claims about the API wrappers *)

\* C30: whenever the backend answers a wrapper's request with a non-success
\* status, the wrapper rejects with an error that carries the status and the
\* response body (the text <unreadable response> when the body cannot be
\* read), and it returns no data parsed from that response.
C30_ErrorStatusRejects ==
    (api.pc = "settled" /\ response # None /\ ~Ok(response[1])) =>
        /\ outcome # None
        /\ outcome[1].kind = "rejected"
        /\ outcome[1].error.status = response[1].status
        /\ outcome[1].error.statusText = response[1].statusText
        /\ response[1].body # None =>
              outcome[1].error.text = response[1].body[1]
        /\ response[1].body = None =>
              outcome[1].error.text = "<unreadable response>"

\* chatStream was answered 500 with a body that would parse as JSON, and
\* rejected with the status and that body
C30_Witness ==
    /\ api = [wrapper |-> "chatStream", pc |-> "settled"]
    /\ response # None
    /\ response[1].status = 500
    /\ response[1].body = Some("{}")
    /\ outcome # None
    /\ outcome[1].kind = "rejected"
    /\ outcome[1].error.text = "{}"

====
